---- MODULE Spec2Model ----
(***************************************************************************)
(* A model of emoji_builder's incremental build: the hash table of source  *)
(* files (changes.rs, FileHashes), the Blobmoji builder (prepare, build,   *)
(* store_prepared) and the driver of main.rs that calls them.              *)
(*                                                                         *)
(* Bytes are naturals below 256, text is a sequence of one-character       *)
(* strings, a file is a sequence of bytes (sources) or of characters (the  *)
(* CSV file of hashes).                                                    *)
(***************************************************************************)
EXTENDS Integers, Sequences, FiniteSets, TLC

VARIABLES
    \* ---- the file system
    fs_svg,          \* source path -> the SVG file, or NoFile
    fs_png,          \* file name in <build>/png -> bytes of the source it was rendered from
    fs_hashes,       \* <build>/hashes.csv, a file of text, or NoFile
    fs_output,       \* TRUE when the output file exists
    \* ---- the command line
    build_path_rooted,   \* TRUE when the build path has a root (is absolute)
    render_only,         \* Blobmoji.render_only
    \* ---- the builder and the driver
    hashes,          \* Blobmoji.hashes: FileHashes, sequence -> digest bytes
    emojis,          \* the items of the current run
    worker,          \* item -> position of its prepare call
    prepared,        \* the HashMap the driver collects: item -> outcome
    pc,              \* position of the driver
    step,            \* position inside the assembly of Blobmoji::build
    \* ---- history, for the properties
    runs,            \* number of runs started
    edits,           \* number of changes made to the files between runs
    faults,          \* number of failures of the tools and of the file system
    rendered,        \* items rendered in the current run
    reused,          \* items that took the reuse branch in the current run
    checked,         \* item -> what FileHashes::check returned in the current run
    stored,          \* "no" before store_prepared ran in the current run, then
                     \* "saved" or "unsaved" as hashes.csv was written or not
    assembled,       \* TRUE when the assembly of the current run ended without error
    build_calls,     \* number of calls of Blobmoji::build in the current run
    last,            \* what the previous run did
    touched,         \* TRUE when a file was changed since the previous run ended
    \* ---- the stand-alone operations of FileHashes
    op,              \* the operation applied last
    arg,             \* its input
    res              \* its result

vars == <<fs_svg, fs_png, fs_hashes, fs_output, build_path_rooted, render_only,
          hashes, emojis, worker, prepared, pc, step, runs, edits, faults,
          rendered, reused, checked, stored, assembled, build_calls, last, touched,
          op, arg, res>>

----------------------------------------------------------------------------
(* Bounds of the model *)

\* Length of the buffer std::io::copy hands to the reader (8 KiB in std)
BufSize == 2
\* Longest source file whose hash is computed step by step
MaxFileLen == 4
\* Number of build runs
MaxRuns == 3
\* Number of changes to the files between runs
MaxEdits == 1
\* Number of failures of the renderer, the font tools and the file system
MaxFaults == 1
\* Number of rows of a hashes.csv that was not written by write_to_path
MaxRows == 3

\* Lengths of the inputs of the constructors of Emoji: codes, characters, and
\* lines of an emoji-test.txt
MaxCodes == 2

MaxText == 3

MaxLines == 2

\* Length of the buffer given to NoCrRead::read, and number of reads of the
\* wrapped reader that return fewer bytes than asked for
MaxBuf == 3

MaxCaps == 2

\* Number of tokens in the first column of a row of hashes.csv
MaxTokens == 2

\* Number of components of the path of a hashes.csv
MaxParts == 3

\* Number of rows of a hashes.csv whose digests have any length
MaxCached == 2

----------------------------------------------------------------------------
(* Values *)

\* A file that does not exist, and a file with its content
NoFile == [exists |-> FALSE, content |-> <<>>]
File(content) == [exists |-> TRUE, content |-> content]
CR == 13
LF == 10
LetterA == 65

Min(a, b) == IF a < b THEN a ELSE b

Range(s) == {s[i] : i \in DOMAIN s}

\* All sequences over S of length at most n
SeqsUpTo(S, n) == UNION {[1..k -> S] : k \in 0..n}

\* The sequences that enumerate the finite set S once each
Orders(S) == {o \in [1..Cardinality(S) -> S] : Range(o) = S}

----------------------------------------------------------------------------
(* Hexadecimal text *)

HexDigits == <<"0", "1", "2", "3", "4", "5", "6", "7",
               "8", "9", "a", "b", "c", "d", "e", "f">>

DecDigits == <<"0", "1", "2", "3", "4", "5", "6", "7", "8", "9">>

\* format!("{}", codepoint): the decimal text, which write_to_csv_writer would
\* write without the x of the format
RECURSIVE FormatDec(_)
FormatDec(n) ==
    IF n < 10 THEN <<DecDigits[n + 1]>>
    ELSE FormatDec(n \div 10) \o <<DecDigits[(n % 10) + 1]>>

\* format!("{:x}", codepoint)
RECURSIVE FormatHex(_)
FormatHex(n) ==
    IF n < 16 THEN <<HexDigits[n + 1]>>
    ELSE FormatHex(n \div 16) \o <<HexDigits[(n % 16) + 1]>>

\* char::to_digit(16): the value of a hexadecimal digit, or -1
HexVal(c) ==
    CASE c = "0" -> 0 [] c = "1" -> 1 [] c = "2" -> 2 [] c = "3" -> 3
      [] c = "4" -> 4 [] c = "5" -> 5 [] c = "6" -> 6 [] c = "7" -> 7
      [] c = "8" -> 8 [] c = "9" -> 9
      [] c \in {"a", "A"} -> 10 [] c \in {"b", "B"} -> 11
      [] c \in {"c", "C"} -> 12 [] c \in {"d", "D"} -> 13
      [] c \in {"e", "E"} -> 14 [] c \in {"f", "F"} -> 15
      [] OTHER -> -1

\* u32::from_str_radix(code, 16): the value, or -1 for an error (empty text, a
\* sign alone, a character that is no digit, a value that overflows).  The
\* values of the model stay below 2^31, where the integers of TLC end, so the
\* overflow is met at 2^31 and not at 2^32: a value whose next digit would
\* take it to 2^31 or above (acc >= 2^27) is an error.
RECURSIVE FromDigits(_, _)
FromDigits(s, acc) ==
    IF s = <<>> THEN acc
    ELSE IF HexVal(Head(s)) < 0 THEN -1
    ELSE IF acc >= 134217728 THEN -1
    ELSE FromDigits(Tail(s), acc * 16 + HexVal(Head(s)))

FromStrRadix16(code) ==
    LET digits == IF code # <<>> /\ Head(code) = "+" THEN Tail(code) ELSE code
    IN IF digits = <<>> THEN -1 ELSE FromDigits(digits, 0)

\* str::split(sep): the pieces between the separators, at least one piece
RECURSIVE Split(_, _)
Split(s, sep) ==
    IF \A i \in DOMAIN s : s[i] # sep THEN <<s>>
    ELSE LET k == CHOOSE i \in DOMAIN s :
                      s[i] = sep /\ \A j \in 1..(i - 1) : s[j] # sep
         IN <<SubSeq(s, 1, k - 1)>> \o Split(SubSeq(s, k + 1, Len(s)), sep)

\* str::trim(): without the white space at both ends
RECURSIVE Trim(_)
Trim(s) ==
    IF s = <<>> THEN s
    ELSE IF Head(s) = " " THEN Trim(Tail(s))
    ELSE IF s[Len(s)] = " " THEN Trim(SubSeq(s, 1, Len(s) - 1))
    ELSE s

\* [String]::join(sep)
RECURSIVE Join(_, _)
Join(parts, sep) ==
    IF parts = <<>> THEN <<>>
    ELSE IF Len(parts) = 1 THEN parts[1]
    ELSE parts[1] \o <<sep>> \o Join(Tail(parts), sep)

\* parse_hex: the codes that parse, the others dropped
parse_hex(sequence) ==
    LET codes == Split(Trim(sequence), " ")
        vals == [i \in DOMAIN codes |-> FromStrRadix16(codes[i])]
    IN SelectSeq(vals, LAMBDA v : v >= 0)

\* hex::encode
RECURSIVE HexEncode(_)
HexEncode(bytes) ==
    IF bytes = <<>> THEN <<>>
    ELSE <<HexDigits[(Head(bytes) \div 16) + 1], HexDigits[(Head(bytes) % 16) + 1]>>
         \o HexEncode(Tail(bytes))

\* hex::decode: [ok |-> TRUE, bytes |-> ...], or [ok |-> FALSE] for text of odd
\* length or with a character that is no hexadecimal digit
RECURSIVE HexDecodePairs(_)
HexDecodePairs(s) ==
    IF s = <<>> THEN <<>>
    ELSE <<HexVal(s[1]) * 16 + HexVal(s[2])>> \o HexDecodePairs(SubSeq(s, 3, Len(s)))

\* hex::decode as it would be if a character that is no digit counted as 0
HexDecodeLossy(s) ==
    [ok |-> TRUE,
     bytes |-> [i \in 1..(Len(s) \div 2) |->
                  (IF HexVal(s[2 * i - 1]) < 0 THEN 0 ELSE HexVal(s[2 * i - 1])) * 16
                  + (IF HexVal(s[2 * i]) < 0 THEN 0 ELSE HexVal(s[2 * i]))]]

HexDecode(s) ==
    IF Len(s) % 2 # 0 \/ \E i \in DOMAIN s : HexVal(s[i]) < 0
    THEN [ok |-> FALSE]
    ELSE [ok |-> TRUE, bytes |-> HexDecodePairs(s)]

----------------------------------------------------------------------------
(* SHA-256 and the reader that drops carriage returns *)

\* The length of a SHA-256 digest in bytes
OutputSize == 32

\* Sha256: the digest of everything written to the hasher.  SHA-256 is taken
\* as collision free: the digest is an injective, fixed-length function of the
\* input (its length, its bytes, zero bytes up to OutputSize), for inputs of
\* fewer than OutputSize bytes.
Sha256(input) ==
    [i \in 1..OutputSize |->
        IF i = 1 THEN Len(input)
        ELSE IF i - 1 <= Len(input) THEN input[i - 1] ELSE 0]

\* An open std::fs::File: the bytes and the number of bytes read so far.
\* caps bounds the length of the successive reads (<<>>: every read fills the
\* buffer up to the end of the file, as reads of a regular file do).
OpenFile(bytes) == [data |-> bytes, pos |-> 0, caps |-> <<>>]

\* The number of bytes the next read of at most len bytes returns
InnerLen(r, len) ==
    LET rest == Len(r.data) - r.pos
    IN IF r.caps = <<>> THEN Min(len, rest)
       ELSE Min(Min(len, rest), Head(r.caps))

\* <R as Read>::read(buf) of the wrapped reader: the bytes go to the front of buf
InnerRead(r, buf) ==
    LET n == InnerLen(r, Len(buf))
    IN [n |-> n,
        buf |-> [i \in 1..Len(buf) |-> IF i <= n THEN r.data[r.pos + i] ELSE buf[i]],
        r |-> [r EXCEPT !.pos = r.pos + n,
                        !.caps = IF r.caps = <<>> THEN <<>> ELSE Tail(r.caps)]]

\* bytecount::count(haystack, needle)
Count(bytes, b) == Cardinality({i \in DOMAIN bytes : bytes[i] = b})

\* buf[from..].iter_mut().for_each(|d| *d = 0)
ZeroFrom(buf, from) == [i \in 1..Len(buf) |-> IF i > from THEN 0 ELSE buf[i]]

\* The buffer as it is without the loop that moves the bytes
KeepAll(buf) == buf

\* The loop that moves the bytes of buf that are no CR to its front: the i-th of
\* them is written to place i, which the iterator has passed already
Compact(buf) ==
    LET kept == SelectSeq(buf, LAMBDA d : d # CR)
    IN [i \in 1..Len(buf) |-> IF i <= Len(kept) THEN kept[i] ELSE buf[i]]

\* NoCrRead::read(buf): [n, buf, r], the count returned, the buffer and the
\* wrapped reader after the call
RECURSIVE NoCrRead_read(_, _)
NoCrRead_read(r, buf) ==
    LET len == Len(buf)
        got == InnerRead(r, buf)
        crs == Count(SubSeq(got.buf, 1, got.n), CR)
        read_bytes == got.n - crs
    IN IF crs > 0
       THEN LET moved == Compact(got.buf)
                more == NoCrRead_read(got.r, SubSeq(moved, len - crs + 1, len))
                filled == SubSeq(moved, 1, len - crs) \o more.buf
                total == read_bytes + more.n
            IN [n |-> total, buf |-> ZeroFrom(filled, total), r |-> more.r]
       ELSE [n |-> read_bytes, buf |-> ZeroFrom(got.buf, read_bytes), r |-> got.r]

\* std::io::copy(reader, hasher): read into the buffer until a read returns 0,
\* writing buf[..n] to the hasher each time; the result is what the hasher got
RECURSIVE io_copy(_, _, _)
io_copy(r, buf, written) ==
    LET got == NoCrRead_read(r, buf)
    IN IF got.n = 0 THEN written
       ELSE io_copy(got.r, got.buf, written \o SubSeq(got.buf, 1, got.n))

\* The bytes of a file as NoCrRead passes them to the hasher
NoCrBytes(bytes) == io_copy(OpenFile(bytes), [i \in 1..BufSize |-> 0], <<>>)

----------------------------------------------------------------------------
(* FileHashes *)

NoPath == "NoPath"

\* An Emoji: its sequence and the path of its SVG file (name and kinds take
\* no part in the build)
Emoji(sequence, svg_path) == [sequence |-> sequence, svg_path |-> svg_path]

\* FileHashes::default(): the empty table
EmptyHashes == <<>>

\* HashMap::insert
Insert(table, key, value) ==
    [k \in (DOMAIN table) \cup {key} |-> IF k = key THEN value ELSE table[k]]

\* FileHashes::hash(emoji) with the files fs: Ok(digest), Err(Io) or
\* Err(NoFileSpecified)
hash(emoji, fs) ==
    IF emoji.svg_path = NoPath THEN [ok |-> FALSE, err |-> "NoFileSpecified"]
    ELSE IF fs[emoji.svg_path] = NoFile THEN [ok |-> FALSE, err |-> "Io"]
    ELSE [ok |-> TRUE, value |-> Sha256(NoCrBytes(fs[emoji.svg_path].content))]

\* The first n bytes of a digest
Truncated(value, n) == SubSeq(value, 1, Min(n, Len(value)))

\* check as it would be with a comparison of the first half of the digests
check_partial(table, emoji, fs) ==
    IF emoji.svg_path = NoPath THEN [ok |-> FALSE, err |-> "NoFileSpecified"]
    ELSE IF emoji.sequence \in DOMAIN table
         THEN IF fs[emoji.svg_path] = NoFile THEN [ok |-> FALSE, err |-> "Io"]
              ELSE [ok |-> TRUE,
                    value |-> Truncated(table[emoji.sequence], OutputSize \div 2)
                                = Truncated(Sha256(NoCrBytes(fs[emoji.svg_path].content)),
                                            OutputSize \div 2)]
         ELSE [ok |-> TRUE, value |-> FALSE]

\* check as it would be if the file were opened before the table is looked at
check_open_first(table, emoji, fs) ==
    IF emoji.svg_path = NoPath THEN [ok |-> FALSE, err |-> "NoFileSpecified"]
    ELSE IF fs[emoji.svg_path] = NoFile THEN [ok |-> FALSE, err |-> "Io"]
    ELSE IF emoji.sequence \in DOMAIN table
         THEN [ok |-> TRUE,
               value |-> table[emoji.sequence]
                           = Sha256(NoCrBytes(fs[emoji.svg_path].content))]
         ELSE [ok |-> TRUE, value |-> FALSE]

\* FileHashes::check(emoji) with the files fs: Ok(bool), Err(Io) or
\* Err(NoFileSpecified)
check(table, emoji, fs) ==
    IF emoji.svg_path = NoPath THEN [ok |-> FALSE, err |-> "NoFileSpecified"]
    ELSE IF emoji.sequence \in DOMAIN table
         THEN IF fs[emoji.svg_path] = NoFile THEN [ok |-> FALSE, err |-> "Io"]
              ELSE [ok |-> TRUE,
                    value |-> table[emoji.sequence]
                                = Sha256(NoCrBytes(fs[emoji.svg_path].content))]
         ELSE [ok |-> TRUE, value |-> FALSE]

\* FileHashes::update(emoji, hash): the new table (the old value is returned
\* to the caller, who drops it)
update(table, emoji, value) == Insert(table, emoji.sequence, value)

\* One record of the CSV file: the codes in hexadecimal with spaces between
\* them, a comma, the digest in hexadecimal, a line feed
Record(sequence, value) ==
    Join([i \in DOMAIN sequence |-> FormatHex(sequence[i])], " ")
        \o <<",">> \o HexEncode(value) \o <<"\n">>

\* FileHashes::write_to_csv_writer: a record for every entry, in the order
\* the HashMap iterates (order)
RECURSIVE write_to_csv_writer(_, _)
write_to_csv_writer(table, order) ==
    IF order = <<>> THEN <<>>
    ELSE Record(Head(order), table[Head(order)])
         \o write_to_csv_writer(table, Tail(order))

\* csv::Reader without headers: the records of a text, one a line, the fields
\* between commas; empty lines are skipped; a record whose number of fields
\* differs from that of the first record is an error (the reader is not
\* flexible).  Fields here hold no quote, so no quoting is involved.
CsvLines(text) == SelectSeq(Split(text, "\n"), LAMBDA l : l # <<>>)

CsvRecords(text) ==
    LET lines == CsvLines(text)
        recs == [i \in DOMAIN lines |-> Split(lines[i], ",")]
    IN [i \in DOMAIN recs |->
          IF Len(recs[i]) = Len(recs[1])
          THEN [ok |-> TRUE, fields |-> recs[i]]
          ELSE [ok |-> FALSE]]

\* table.extend(entries): later entries replace earlier ones of the same key
RECURSIVE Extend(_, _)
Extend(table, entries) ==
    IF entries = <<>> THEN table
    ELSE Extend(Insert(table, Head(entries)[1], Head(entries)[2]), Tail(entries))

\* FileHashes::from_csv_reader
from_csv_reader(text) ==
    LET records == SelectSeq(CsvRecords(text), LAMBDA r : r.ok)
        long == SelectSeq(records, LAMBDA r : Len(r.fields) >= 2)
        parsed == [i \in DOMAIN long |->
                     <<parse_hex(long[i].fields[1]), HexDecode(long[i].fields[2])>>]
        good == SelectSeq(parsed, LAMBDA e : e[2].ok)
        entries == [i \in DOMAIN good |-> <<good[i][1], good[i][2].bytes>>]
    IN Extend(EmptyHashes, entries)

----------------------------------------------------------------------------
(* The items and files of the build runs *)

\* The source files of the model and what they can hold
SvgPaths == {"svg/emoji_u1f600.svg", "svg/emoji_u1f601.svg"}
SvgContents == {<<LetterA, LF>>, <<LF>>}

\* The items Emoji::from_path makes of the source files
Items == {Emoji(<<128512>>, "svg/emoji_u1f600.svg"),
          Emoji(<<128513>>, "svg/emoji_u1f601.svg")}

\* Blobmoji::generate_filename
generate_filename(emoji) ==
    <<"emoji_u">>
        \o Join([i \in DOMAIN emoji.sequence |-> FormatHex(emoji.sequence[i])], "_")
        \o <<".png">>

\* The steps of the assembly in Blobmoji::build, in order
AssemblySteps == <<"add_glyphs", "remove_tmpl_ttf", "build_ttf", "emoji_builder",
                   "map_pua", "add_vs_cmap", "rename", "copy", "remove_ttf_with_pua",
                   "remove_tmpl_ttx", "remove_tmpl_ttf_end">>

\* What a run leaves for the properties of the next one: where it failed
\* ("" when it returned Ok, "prepare" or "build" when it panicked there), its
\* items, those whose prepare returned Ok and Err, the digests it had for
\* store_prepared, and whether hashes.csv was written
NoRun == [started |-> FALSE]

RunRecord(failed_in, saved) ==
    [started |-> TRUE,
     failed_in |-> failed_in,
     emojis |-> emojis,
     ok |-> {e \in emojis : worker[e].at = "done" /\ worker[e].result.ok},
     err |-> {e \in emojis : worker[e].at = "done" /\ ~worker[e].result.ok},
     digests |-> [e \in {x \in emojis : /\ worker[x].at = "done"
                                        /\ worker[x].result.ok
                                        /\ worker[x].result.hash.ok}
                    |-> worker[e].result.hash.value],
     saved |-> saved]

----------------------------------------------------------------------------
(* Blobmoji and the driver *)

\* FileHashes::from_path(path) for the path <build>/hashes.csv.  FsSource::new
\* takes the parent of the path as base_dir and the path as base_file;
\* request_root_file asks for base_file, and relate_path joins a path without
\* root to base_dir: a relative <build>/hashes.csv is looked for at
\* <build>/<build>/hashes.csv, which no run writes.
from_path(rooted, file) ==
    IF rooted
    THEN IF file = NoFile THEN [ok |-> FALSE] ELSE [ok |-> TRUE, table |-> from_csv_reader(file.content)]
    ELSE [ok |-> FALSE]

\* Blobmoji::new: the table of hashes it starts with
new(rooted, file) ==
    LET loaded == from_path(rooted, file)
    IN IF loaded.ok THEN loaded.table ELSE EmptyHashes

\* The driver starts a run: parse_emojis, Blobmoji::new
StartRun(items) ==
    /\ pc = "idle"
    /\ runs < MaxRuns
    /\ runs' = runs + 1
    /\ emojis' = items
    /\ hashes' = new(build_path_rooted, fs_hashes)
    /\ worker' = [e \in items |-> [at |-> "todo"]]
    /\ prepared' = <<>>
    /\ pc' = "prepare"
    /\ rendered' = {}
    /\ reused' = {}
    /\ checked' = <<>>
    /\ stored' = "no"
    /\ assembled' = FALSE
    /\ build_calls' = 0
    /\ step' = 0
    /\ UNCHANGED <<fs_svg, fs_png, fs_hashes, fs_output, build_path_rooted,
                   render_only, edits, faults, last, touched, op, arg, res>>

\* The check as it would be with unwrap_or(true)
IsFreshOnError(table, emoji, fs) ==
    LET c == check(table, emoji, fs) IN IF c.ok THEN c.value ELSE TRUE

\* self.hashes.check(emoji).unwrap_or(false)
IsFresh(table, emoji, fs) ==
    LET c == check(table, emoji, fs) IN IF c.ok THEN c.value ELSE FALSE

\* The condition of Blobmoji::prepare to render
MustRender(table, emoji, fs, pngs) ==
    ~IsFresh(table, emoji, fs) \/ generate_filename(emoji) \notin DOMAIN pngs

\* Blobmoji::prepare up to write_png: the check, and then either the reuse of
\* the image (the hash is the one of the table), or render_svg (it fails
\* without a file that can be read, and may fail with one) and write_png
PrepareBegin(e, renders) ==
    /\ pc = "prepare"
    /\ worker[e].at = "todo"
    /\ LET fails == /\ MustRender(hashes, e, fs_svg, fs_png)
                    /\ e.svg_path # NoPath
                    /\ fs_svg[e.svg_path] # NoFile
                    /\ ~renders
       IN /\ fails => faults < MaxFaults
          /\ faults' = IF fails THEN faults + 1 ELSE faults
    /\ checked' = Insert(checked, e, check(hashes, e, fs_svg))
    /\ IF MustRender(hashes, e, fs_svg, fs_png)
       THEN /\ rendered' = rendered \cup {e}
            /\ reused' = reused
            /\ IF e.svg_path # NoPath /\ fs_svg[e.svg_path] # NoFile /\ renders
               THEN /\ fs_png' = Insert(fs_png, generate_filename(e), fs_svg[e.svg_path].content)
                    /\ worker' = [worker EXCEPT ![e] = [at |-> "hash"]]
               ELSE /\ fs_png' = fs_png
                    /\ worker' = [worker EXCEPT ![e] =
                                    [at |-> "done", result |-> [ok |-> FALSE]]]
       ELSE /\ rendered' = rendered
            /\ reused' = reused \cup {e}
            /\ fs_png' = fs_png
            /\ worker' = [worker EXCEPT ![e] =
                            [at |-> "done",
                             result |-> [ok |-> TRUE,
                                         path |-> generate_filename(e),
                                         hash |-> [ok |-> TRUE,
                                                   value |-> hashes[e.sequence]]]]]
    /\ UNCHANGED <<fs_svg, fs_hashes, fs_output, build_path_rooted, render_only,
                   hashes, emojis, prepared, pc, step, runs, edits, stored,
                   assembled, build_calls, last, touched, op, arg, res>>

\* Blobmoji::prepare after write_png as it would be if the worker itself stored
\* the digest in the table
PrepareHashUpdating(e) ==
    /\ pc = "prepare"
    /\ worker[e].at = "hash"
    /\ worker' = [worker EXCEPT ![e] =
                    [at |-> "done",
                     result |-> [ok |-> TRUE,
                                 path |-> generate_filename(e),
                                 hash |-> hash(e, fs_svg)]]]
    /\ hashes' = IF hash(e, fs_svg).ok
                 THEN update(hashes, e, hash(e, fs_svg).value)
                 ELSE hashes
    /\ UNCHANGED <<fs_svg, fs_png, fs_hashes, fs_output, build_path_rooted,
                   render_only, emojis, prepared, pc, step, runs, edits, faults,
                   rendered, reused, checked, stored, assembled, build_calls,
                   last, touched, op, arg, res>>

\* Blobmoji::prepare after write_png: FileHashes::hash(emoji), Ok((path, hash))
PrepareHash(e) ==
    /\ pc = "prepare"
    /\ worker[e].at = "hash"
    /\ worker' = [worker EXCEPT ![e] =
                    [at |-> "done",
                     result |-> [ok |-> TRUE,
                                 path |-> generate_filename(e),
                                 hash |-> hash(e, fs_svg)]]]
    /\ UNCHANGED <<fs_svg, fs_png, fs_hashes, fs_output, build_path_rooted,
                   render_only, hashes, emojis, prepared, pc, step, runs, edits, faults,
                   rendered, reused, checked, stored, assembled, build_calls,
                   last, touched, op, arg, res>>

\* The end of a run: the process exits, and what it held in memory is gone
EndRun(failed_in, saved) ==
    /\ pc' = "idle"
    /\ last' = RunRecord(failed_in, saved)
    /\ touched' = FALSE
    /\ hashes' = EmptyHashes
    /\ emojis' = {}
    /\ worker' = <<>>
    /\ prepared' = <<>>
    /\ rendered' = {}
    /\ reused' = {}
    /\ checked' = <<>>
    /\ stored' = "no"
    /\ assembled' = FALSE
    /\ build_calls' = 0
    /\ step' = 0

\* pixels_to_png(..).unwrap() and write_png(..).unwrap() in Blobmoji::prepare:
\* an error of the encoder or of the file system panics, and the run ends
PreparePanic(e) ==
    /\ pc = "prepare"
    /\ worker[e].at = "todo"
    /\ MustRender(hashes, e, fs_svg, fs_png)
    /\ e.svg_path # NoPath
    /\ fs_svg[e.svg_path] # NoFile
    /\ faults < MaxFaults
    /\ faults' = faults + 1
    /\ EndRun("prepare", FALSE)
    /\ UNCHANGED <<fs_svg, fs_png, fs_hashes, fs_output, build_path_rooted,
                   render_only, runs, edits, op, arg, res>>

\* The map as it would be if the driver kept the Ok outcomes only
CollectOk(order, results) ==
    [k \in {e.sequence : e \in {x \in Range(order) : results[x].ok}} |->
        LET e == CHOOSE x \in Range(order) : x.sequence = k
        IN [emoji |-> e, result |-> results[e]]]

\* collect() into HashMap<&Emoji, _>: an entry for every item in turn; Emoji is
\* hashed and compared by its sequence, and an insert under a key that is
\* present keeps the key and replaces the value
RECURSIVE CollectMap(_, _)
CollectMap(order, results) ==
    IF order = <<>> THEN <<>>
    ELSE LET rest == CollectMap(SubSeq(order, 1, Len(order) - 1), results)
             e == order[Len(order)]
             key == IF e.sequence \in DOMAIN rest THEN rest[e.sequence].emoji ELSE e
         IN Insert(rest, e.sequence, [emoji |-> key, result |-> results[e]])

\* The driver collects the outcomes once every prepare call has returned
Collect(order) ==
    /\ pc = "prepare"
    /\ \A e \in emojis : worker[e].at = "done"
    /\ prepared' = CollectMap(order, [e \in emojis |-> worker[e].result])
    /\ pc' = "build"
    /\ UNCHANGED <<fs_svg, fs_png, fs_hashes, fs_output, build_path_rooted,
                   render_only, hashes, emojis, worker, step, runs, edits, faults,
                   rendered, reused, checked, stored, assembled, build_calls,
                   last, touched, op, arg, res>>

\* The updates of Blobmoji::store_prepared: self.hashes.update(emoji, hash) for
\* every entry Ok((_, Ok(hash))) of the map; no entry is ever removed
store_updates(table, map) ==
    LET good == {k \in DOMAIN map : map[k].result.ok /\ map[k].result.hash.ok}
    IN [k \in (DOMAIN table) \cup good |->
          IF k \in good THEN map[k].result.hash.value ELSE table[k]]

\* Blobmoji::build up to the assembly: assert!(!emojis.is_empty()), then
\* store_prepared (the updates, then write_to_path, whose error is only
\* logged), then Ok(()) at once when only rendering is asked for
BuildStore(order, written) ==
    /\ pc = "build"
    /\ ~written => faults < MaxFaults /\ DOMAIN prepared # {}
    /\ faults' = IF written THEN faults ELSE faults + 1
    /\ IF DOMAIN prepared = {}
       THEN /\ EndRun("build", FALSE)
            /\ UNCHANGED fs_hashes
       ELSE /\ hashes' = store_updates(hashes, prepared)
            /\ fs_hashes' = IF written
                            THEN File(write_to_csv_writer(store_updates(hashes, prepared), order))
                            ELSE fs_hashes
            /\ stored' = IF written THEN "saved" ELSE "unsaved"
            /\ build_calls' = build_calls + 1
            /\ pc' = IF render_only THEN "returned" ELSE "assembly"
            /\ step' = IF render_only THEN 0 ELSE 1
            /\ UNCHANGED <<emojis, worker, prepared, rendered, reused,
                           checked, assembled, last, touched>>
    /\ UNCHANGED <<fs_svg, fs_png, fs_output, build_path_rooted, render_only,
                   runs, edits, op, arg, res>>

\* One step of the assembly in Blobmoji::build.  An error of add_glyphs is
\* printed and the build goes on; an error of any other step panics (panic!()
\* or unwrap()).  After the last step build returns Ok(()).
AssemblyStep(succeeds) ==
    /\ pc = "assembly"
    /\ ~succeeds => faults < MaxFaults
    /\ faults' = IF succeeds THEN faults ELSE faults + 1
    /\ IF succeeds \/ AssemblySteps[step] = "add_glyphs"
       THEN /\ fs_output' = (fs_output \/ AssemblySteps[step] = "copy")
            /\ step' = IF step = Len(AssemblySteps) THEN 0 ELSE step + 1
            /\ pc' = IF step = Len(AssemblySteps) THEN "returned" ELSE "assembly"
            /\ assembled' = (step = Len(AssemblySteps))
            /\ UNCHANGED <<hashes, emojis, worker, prepared, rendered, reused,
                           checked, stored, build_calls, last, touched>>
       ELSE /\ EndRun("build", stored = "saved")
            /\ UNCHANGED fs_output
    /\ UNCHANGED <<fs_svg, fs_png, fs_hashes, build_path_rooted, render_only,
                   runs, edits, op, arg, res>>

\* build has returned Ok(()): the driver returns from main
Exit ==
    /\ pc = "returned"
    /\ EndRun("", stored = "saved")
    /\ UNCHANGED <<fs_svg, fs_png, fs_hashes, fs_output, build_path_rooted,
                   render_only, runs, edits, faults, op, arg, res>>

----------------------------------------------------------------------------
(* What happens to the files between two runs *)

\* A source file is written, or removed
ModifySource(path, file) ==
    /\ pc = "idle"
    /\ edits < MaxEdits
    /\ fs_svg[path] # file
    /\ fs_svg' = [fs_svg EXCEPT ![path] = file]
    /\ edits' = edits + 1
    /\ faults' = faults
    /\ touched' = TRUE
    /\ UNCHANGED <<fs_png, fs_hashes, fs_output, build_path_rooted, render_only,
                   hashes, emojis, worker, prepared, pc, step, runs, rendered,
                   reused, checked, stored, assembled, build_calls, last,
                   op, arg, res>>

\* A rendered image is removed from <build>/png
DeleteArtifact(name) ==
    /\ pc = "idle"
    /\ edits < MaxEdits
    /\ name \in DOMAIN fs_png
    /\ fs_png' = [n \in (DOMAIN fs_png) \ {name} |-> fs_png[n]]
    /\ edits' = edits + 1
    /\ faults' = faults
    /\ touched' = TRUE
    /\ UNCHANGED <<fs_svg, fs_hashes, fs_output, build_path_rooted, render_only,
                   hashes, emojis, worker, prepared, pc, step, runs, rendered,
                   reused, checked, stored, assembled, build_calls, last,
                   op, arg, res>>

----------------------------------------------------------------------------
(* The build runs: a new build directory, then runs of the driver with changes *)
(* to the files between them                                                   *)

Init ==
    /\ fs_svg = [p \in SvgPaths |-> File(<<LetterA, LF>>)]
    /\ fs_png = <<>>
    /\ fs_hashes = NoFile
    /\ fs_output = FALSE
    /\ build_path_rooted \in BOOLEAN
    /\ render_only \in BOOLEAN
    /\ hashes = EmptyHashes
    /\ emojis = {}
    /\ worker = <<>>
    /\ prepared = <<>>
    /\ pc = "idle"
    /\ step = 0
    /\ runs = 0
    /\ edits = 0
    /\ faults = 0
    /\ rendered = {}
    /\ reused = {}
    /\ checked = <<>>
    /\ stored = "no"
    /\ assembled = FALSE
    /\ build_calls = 0
    /\ last = NoRun
    /\ touched = FALSE
    /\ op = "none"
    /\ arg = <<>>
    /\ res = <<>>

Next ==
    \/ \E items \in SUBSET Items : StartRun(items)
    \/ \E e \in emojis, renders \in BOOLEAN : PrepareBegin(e, renders)
    \/ \E e \in emojis : PrepareHash(e)
    \/ \E e \in emojis : PreparePanic(e)
    \/ \E order \in Orders(emojis) : Collect(order)
    \/ \E order \in Orders(DOMAIN store_updates(hashes, prepared)),
          written \in BOOLEAN : BuildStore(order, written)
    \/ \E succeeds \in BOOLEAN : AssemblyStep(succeeds)
    \/ Exit
    \/ \E path \in SvgPaths, file \in {File(c) : c \in SvgContents} \cup {NoFile} :
          ModifySource(path, file)
    \/ \E name \in DOMAIN fs_png : DeleteArtifact(name)

Spec == Init /\ [][Next]_vars

----------------------------------------------------------------------------
(* The build runs with another process writing the source files while prepare *)
(* is running                                                                 *)

\* A source file is written, or removed, between two steps of the prepare calls:
\* render_svg reads the file with usvg::Tree::from_file, and FileHashes::hash
\* opens it again after write_png
WriteSourceInPrepare(path, file) ==
    /\ pc = "prepare"
    /\ edits < MaxEdits
    /\ fs_svg[path] # file
    /\ fs_svg' = [fs_svg EXCEPT ![path] = file]
    /\ edits' = edits + 1
    /\ touched' = TRUE
    /\ UNCHANGED <<fs_png, fs_hashes, fs_output, build_path_rooted, render_only,
                   hashes, emojis, worker, prepared, pc, step, runs, faults,
                   rendered, reused, checked, stored, assembled, build_calls,
                   last, op, arg, res>>

\* The digest of the bytes an image was rendered from
RenderedDigest(e) ==
    hash(e, [p \in SvgPaths |-> File(fs_png[generate_filename(e)])])

NextRace ==
    \/ \E items \in SUBSET Items : StartRun(items)
    \/ \E e \in emojis, renders \in BOOLEAN : PrepareBegin(e, renders)
    \/ \E e \in emojis : PrepareHash(e)
    \/ \E path \in SvgPaths, file \in {File(c) : c \in SvgContents} \cup {NoFile} :
          WriteSourceInPrepare(path, file)
    \/ \E order \in Orders(emojis) : Collect(order)
    \/ \E order \in Orders(DOMAIN store_updates(hashes, prepared)),
          written \in BOOLEAN : BuildStore(order, written)
    \/ \E succeeds \in BOOLEAN : AssemblyStep(succeeds)
    \/ Exit

SpecRace == Init /\ [][NextRace]_vars

----------------------------------------------------------------------------
(* FileHashes on its own: the operations applied to tables and files drawn  *)
(* from bounded sets, with no build run going on                            *)

\* No build run is going on, and none has been
NoBuild ==
    /\ fs_png = <<>>
    /\ fs_output = FALSE
    /\ build_path_rooted = TRUE
    /\ render_only = FALSE
    /\ emojis = {}
    /\ worker = <<>>
    /\ prepared = <<>>
    /\ pc = "idle"
    /\ step = 0
    /\ runs = 0
    /\ edits = 0
    /\ faults = 0
    /\ rendered = {}
    /\ reused = {}
    /\ checked = <<>>
    /\ stored = "no"
    /\ assembled = FALSE
    /\ build_calls = 0
    /\ last = NoRun
    /\ touched = FALSE

build_vars == <<fs_png, fs_output, build_path_rooted, render_only, emojis,
                worker, prepared, pc, step, runs, edits, faults, rendered,
                reused, checked, stored, assembled, build_calls, last, touched>>

\* The item of a source path
ItemOf(path) == CHOOSE e \in Items : e.svg_path = path

\* The bytes of a file without its carriage returns
StripCR(bytes) == SelectSeq(bytes, LAMBDA d : d # CR)

\* ---- FileHashes::hash

\* The bytes the source files of the hash runs are made of
HashBytes == {CR, LF, LetterA}

InitHash ==
    /\ NoBuild
    /\ fs_svg \in [SvgPaths -> {File(c) : c \in SeqsUpTo(HashBytes, MaxFileLen)}]
    /\ fs_hashes = NoFile
    /\ hashes = EmptyHashes
    /\ op = "none"
    /\ arg = <<>>
    /\ res = <<>>

\* FileHashes::hash(emoji)
Hash(e) ==
    /\ op = "none"
    /\ op' = "hash"
    /\ arg' = e
    /\ res' = hash(e, fs_svg)
    /\ UNCHANGED <<fs_svg, fs_hashes, hashes>>
    /\ UNCHANGED build_vars

NextHash == \E e \in Items : Hash(e)

SpecHash == InitHash /\ [][NextHash]_vars

\* ---- FileHashes::check and FileHashes::update

\* An item without a path, as Emoji::from_sequence makes it
NoPathItem == Emoji(<<128512>>, NoPath)

CheckItems == Items \cup {NoPathItem}

CheckContents == {<<LetterA, LF>>, <<LetterA, CR, LF>>, <<LF>>}

\* A digest with its last byte changed
LastChanged(value) == [value EXCEPT ![Len(value)] = (value[Len(value)] + 1) % 256]

\* What the table may hold for a sequence: the digests of the contents, and
\* values that agree with one of them in their first bytes only
CheckDigests ==
    LET ds == {Sha256(StripCR(c)) : c \in CheckContents}
    IN ds \cup {LastChanged(d) : d \in ds} \cup {Truncated(d, OutputSize \div 2) : d \in ds}

CheckTables ==
    UNION {[S -> CheckDigests] : S \in SUBSET {e.sequence : e \in Items}}

InitCheck ==
    /\ NoBuild
    /\ fs_svg \in [SvgPaths -> {File(c) : c \in CheckContents} \cup {NoFile}]
    /\ fs_hashes = NoFile
    /\ hashes \in CheckTables
    /\ op = "none"
    /\ arg = <<>>
    /\ res = <<>>

\* FileHashes::check(emoji)
Check(e) ==
    /\ op' = "check"
    /\ arg' = e
    /\ res' = check(hashes, e, fs_svg)
    /\ UNCHANGED <<fs_svg, fs_hashes, hashes>>
    /\ UNCHANGED build_vars

\* hashes.update(&emoji, &FileHashes::hash(&emoji).unwrap()), as test_hashing
\* and store_prepared call it
Update(e) ==
    /\ hash(e, fs_svg).ok
    /\ op' = "update"
    /\ arg' = e
    /\ res' = <<>>
    /\ hashes' = update(hashes, e, hash(e, fs_svg).value)
    /\ UNCHANGED <<fs_svg, fs_hashes>>
    /\ UNCHANGED build_vars

NextCheck ==
    \/ \E e \in CheckItems : Check(e)
    \/ \E e \in CheckItems : Update(e)

SpecCheck == InitCheck /\ [][NextCheck]_vars

\* ---- FileHashes::write_to_path and FileHashes::from_path

CsvSequences == {<<169>>, <<128512>>, <<35, 65039, 8419>>}

CsvDigests == {Sha256(<<LetterA, LF>>), Sha256(<<255, 171>>)}

CsvTables == UNION {[S -> CsvDigests] : S \in SUBSET CsvSequences}

InitCsv ==
    /\ NoBuild
    /\ fs_svg = [p \in SvgPaths |-> File(<<LetterA, LF>>)]
    /\ fs_hashes = NoFile
    /\ hashes \in CsvTables
    /\ op = "none"
    /\ arg = <<>>
    /\ res = <<>>

\* hashes.write_to_path(path): the records in the order the HashMap iterates
Persist(order) ==
    /\ op' = "persist"
    /\ arg' = order
    /\ res' = <<>>
    /\ fs_hashes' = File(write_to_csv_writer(hashes, order))
    /\ UNCHANGED <<fs_svg, hashes>>
    /\ UNCHANGED build_vars

\* FileHashes::from_path(path) of a path with a root
Load ==
    /\ from_path(TRUE, fs_hashes).ok
    /\ op' = "load"
    /\ res' = from_path(TRUE, fs_hashes).table
    /\ UNCHANGED <<fs_svg, fs_hashes, hashes, arg>>
    /\ UNCHANGED build_vars

NextCsv ==
    \/ \E order \in Orders(DOMAIN hashes) : Persist(order)
    \/ Load

SpecCsv == InitCsv /\ [][NextCsv]_vars

\* ---- FileHashes::from_path of a file that holds rows of any kind

\* The rows of such a file: two that are well formed, one with a single
\* column, one whose digest is no hexadecimal text
LoadRows ==
    {[text |-> Record(<<128512>>, Sha256(<<LetterA, LF>>)), good |-> TRUE,
      key |-> <<128512>>, value |-> Sha256(<<LetterA, LF>>)],
     [text |-> Record(<<128513>>, Sha256(<<LF>>)), good |-> TRUE,
      key |-> <<128513>>, value |-> Sha256(<<LF>>)],
     [text |-> FormatHex(128512) \o <<"\n">>, good |-> FALSE],
     [text |-> FormatHex(128512) \o <<",", "z", "z", "\n">>, good |-> FALSE]}

\* The text of a file of rows
RECURSIVE RowsText(_)
RowsText(rows) ==
    IF rows = <<>> THEN <<>> ELSE Head(rows).text \o RowsText(Tail(rows))

InitLoad ==
    /\ fs_png = <<>>
    /\ fs_output = FALSE
    /\ build_path_rooted \in BOOLEAN
    /\ render_only = FALSE
    /\ emojis = {}
    /\ worker = <<>>
    /\ prepared = <<>>
    /\ pc = "idle"
    /\ step = 0
    /\ runs = 0
    /\ edits = 0
    /\ faults = 0
    /\ rendered = {}
    /\ reused = {}
    /\ checked = <<>>
    /\ stored = "no"
    /\ assembled = FALSE
    /\ build_calls = 0
    /\ last = NoRun
    /\ touched = FALSE
    /\ fs_svg = [p \in SvgPaths |-> File(<<LetterA, LF>>)]
    /\ hashes = EmptyHashes
    /\ op = "none"
    /\ res = <<>>
    /\ arg \in SeqsUpTo(LoadRows, MaxRows)
    /\ fs_hashes \in {NoFile, File(RowsText(arg))}

\* The file is loaded on its own, or by Blobmoji::new when a run starts
NextLoad ==
    \/ Load
    \/ \E items \in SUBSET Items : StartRun(items)

SpecLoad == InitLoad /\ [][NextLoad]_vars

----------------------------------------------------------------------------
(* The reuse branch of Blobmoji::prepare with a hashes.csv that holds digests *)
(* of any length                                                              *)

\* The digests of the rows: the one of a source file, its first half, the
\* digest with one byte more, and no byte at all
CachedDigests(content) ==
    {Sha256(content), Truncated(Sha256(content), OutputSize \div 2),
     Sha256(content) \o <<0>>, <<>>}

\* The rows of the file
CachedRows ==
    {[text |-> Record(<<128512>>, d)] : d \in CachedDigests(<<LetterA, LF>>)}
        \cup {[text |-> Record(<<128513>>, d)] : d \in CachedDigests(<<LF>>)}

\* The images in <build>/png before the run
CachedImages ==
    UNION {[S -> {<<LetterA, LF>>}] : S \in SUBSET {generate_filename(e) : e \in Items}}

InitReuse ==
    /\ fs_svg \in [SvgPaths -> {File(<<LetterA, LF>>), File(<<LF>>), NoFile}]
    /\ fs_png \in CachedImages
    /\ fs_hashes \in {NoFile} \cup {File(RowsText(rows)) : rows \in SeqsUpTo(CachedRows, MaxCached)}
    /\ fs_output = FALSE
    /\ build_path_rooted = TRUE
    /\ render_only = FALSE
    /\ hashes = EmptyHashes
    /\ emojis = {}
    /\ worker = <<>>
    /\ prepared = <<>>
    /\ pc = "idle"
    /\ step = 0
    /\ runs = 0
    /\ edits = 0
    /\ faults = 0
    /\ rendered = {}
    /\ reused = {}
    /\ checked = <<>>
    /\ stored = "no"
    /\ assembled = FALSE
    /\ build_calls = 0
    /\ last = NoRun
    /\ touched = FALSE
    /\ op = "none"
    /\ arg = <<>>
    /\ res = <<>>

\* Blobmoji::new loads the file, and the prepare calls run
NextReuse ==
    \/ \E items \in SUBSET Items : StartRun(items)
    \/ \E e \in emojis, renders \in BOOLEAN : PrepareBegin(e, renders)
    \/ \E e \in emojis : PrepareHash(e)

SpecReuse == InitReuse /\ [][NextReuse]_vars

----------------------------------------------------------------------------
(* Emoji: the constructors, and parse_emojis of the driver *)

\* The delimiters of HEX_SEQUENCE: a dash, an underscore, a dot or a space
Delimiters == {"-", "_", ".", " "}

\* The number of hexadecimal digits that stand in a row from position i
RECURSIVE HexRun(_, _)
HexRun(s, i) ==
    IF i > Len(s) \/ HexVal(s[i]) < 0 THEN 0 ELSE 1 + HexRun(s, i + 1)

\* captures_iter of ([a-fA-F0-9]{1,8})([-_. ]|$) from position i: the first
\* group of every match, the matches taken from left to right without overlap.
\* A match starts where one to eight digits are followed by a delimiter or by
\* the end of the text.
RECURSIVE HexSequenceFrom(_, _)
HexSequenceFrom(s, i) ==
    IF i > Len(s) THEN <<>>
    ELSE LET run == HexRun(s, i)
             next == i + run
         IN IF run >= 1 /\ run <= 8 /\ (next > Len(s) \/ s[next] \in Delimiters)
            THEN <<SubSeq(s, i, next - 1)>> \o HexSequenceFrom(s, next + 1)
            ELSE HexSequenceFrom(s, i + 1)

\* Emoji::from_u32_sequence without a table: an empty sequence is an error
from_u32_sequence(code_sequence) ==
    IF code_sequence # <<>>
    THEN [ok |-> TRUE, emoji |-> Emoji(code_sequence, NoPath)]
    ELSE [ok |-> FALSE, error |-> "NoValidCodepointsFound"]

\* Emoji::from_sequence without a table: every match is parsed,
\* unwrap_or(0), and the codes that are 0 are dropped
from_sequence(sequence) ==
    LET matches == HexSequenceFrom(sequence, 1)
        codes == [i \in DOMAIN matches |->
                    IF FromStrRadix16(matches[i]) < 0 THEN 0
                    ELSE FromStrRadix16(matches[i])]
    IN from_u32_sequence(SelectSeq(codes, LAMBDA c : c > 0))

\* The files of the image directory: the path and its file_stem
ImageFiles ==
    {[path |-> "svg/emoji_u1f600.svg",
      stem |-> <<"e", "m", "o", "j", "i", "_", "u", "1", "f", "6", "0", "0">>],
     [path |-> "svg/emoji_u1f601.svg",
      stem |-> <<"e", "m", "o", "j", "i", "_", "u", "1", "f", "6", "0", "1">>],
     [path |-> "svg/1F600.svg",
      stem |-> <<"1", "F", "6", "0", "0">>],
     [path |-> "svg/notes.txt",
      stem |-> <<"n", "o", "t", "e", "s">>]}

\* Emoji::from_path(file, None, false): from_sequence of the stem, then set_path
from_path_emoji(file) ==
    LET emoji == from_sequence(file.stem)
    IN IF emoji.ok
       THEN [ok |-> TRUE, emoji |-> Emoji(emoji.emoji.sequence, file.path)]
       ELSE emoji

\* parse_emojis without a table: an Emoji for every file whose name parses, in
\* a Vec, the others logged and dropped
parse_emojis(files) ==
    {from_path_emoji(f).emoji : f \in {x \in files : from_path_emoji(x).ok}}

\* collect() into the HashSet<Emoji> of an EmojiPack: one item for a sequence
IsHashSet(items) ==
    \A a, b \in items : a.sequence = b.sequence => a = b

----------------------------------------------------------------------------
(* The constructors of Emoji over texts, flags and paths, with and without an
   EmojiTable filled from the lines of an emoji-test.txt *)

LowerCase == <<"a", "b", "c", "d", "e", "f", "g", "h", "i", "j", "k", "l", "m",
               "n", "o", "p", "q", "r", "s", "t", "u", "v", "w", "x", "y", "z">>

UpperCase == <<"A", "B", "C", "D", "E", "F", "G", "H", "I", "J", "K", "L", "M",
               "N", "O", "P", "Q", "R", "S", "T", "U", "V", "W", "X", "Y", "Z">>

\* The position of an element in a sequence, 0 when it is not in it
IndexOf(seq, c) ==
    IF \E i \in DOMAIN seq : seq[i] = c THEN CHOOSE i \in DOMAIN seq : seq[i] = c ELSE 0

\* char as u32, for the letters, the digits and the signs of the texts here
CharCode(c) ==
    IF IndexOf(LowerCase, c) > 0 THEN 96 + IndexOf(LowerCase, c)
    ELSE IF IndexOf(UpperCase, c) > 0 THEN 64 + IndexOf(UpperCase, c)
    ELSE IF IndexOf(DecDigits, c) > 0 THEN 47 + IndexOf(DecDigits, c)
    ELSE IF c = " " THEN 32
    ELSE IF c = "-" THEN 45
    ELSE IF c = "." THEN 46
    ELSE 95

\* str::to_lowercase
to_lowercase(s) ==
    [i \in DOMAIN s |->
        IF IndexOf(UpperCase, s[i]) > 0 THEN LowerCase[IndexOf(UpperCase, s[i])] ELSE s[i]]

FLAG_OFFSET == 127365

REGIONAL_OFFSET == 917504

CANCEL_TAG == 917631

BLACK_FLAG == 127988

\* COUNTRY_FLAG: ^[a-z]+$
IsCountryFlag(flag) ==
    flag # <<>> /\ \A i \in DOMAIN flag : IndexOf(LowerCase, flag[i]) > 0

\* REGION_FLAG: ^([a-z]+)-([a-z0-9]+)$
IsRegionFlag(flag) ==
    LET parts == Split(flag, "-")
    IN /\ Len(parts) = 2
       /\ IsCountryFlag(parts[1])
       /\ parts[2] # <<>>
       /\ \A i \in DOMAIN parts[2] :
             IndexOf(LowerCase, parts[2][i]) > 0 \/ IndexOf(DecDigits, parts[2][i]) > 0

\* Emoji::from_flag without a table
from_flag(text) ==
    LET flag == to_lowercase(Trim(Split(text, ".")[1]))
    IN IF IsCountryFlag(flag)
       THEN from_u32_sequence([i \in DOMAIN flag |-> CharCode(flag[i]) + FLAG_OFFSET])
       ELSE IF IsRegionFlag(flag)
       THEN LET tags == Split(flag, "-")[1] \o Split(flag, "-")[2]
            IN from_u32_sequence(<<BLACK_FLAG>>
                                 \o [i \in DOMAIN tags |-> CharCode(tags[i]) + REGIONAL_OFFSET]
                                 \o <<CANCEL_TAG>>)
       ELSE [ok |-> FALSE, error |-> "NoValidFlagSequence"]

\* find_iter of [a-fA-F0-9]+ from position i: the runs of digits
RECURSIVE HexRunsFrom(_, _)
HexRunsFrom(s, i) ==
    IF i > Len(s) THEN <<>>
    ELSE IF HexRun(s, i) = 0 THEN HexRunsFrom(s, i + 1)
    ELSE <<SubSeq(s, i, i + HexRun(s, i) - 1)>> \o HexRunsFrom(s, i + HexRun(s, i))

\* EmojiTable::key_from_str: every run parsed, unwrap_or_default, and the
\* codes that are 0 dropped
key_from_str(raw_codepoints) ==
    LET texts == HexRunsFrom(raw_codepoints, 1)
        codes == [i \in DOMAIN texts |->
                    IF FromStrRadix16(texts[i]) < 0 THEN 0 ELSE FromStrRadix16(texts[i])]
    IN SelectSeq(codes, LAMBDA c : c > 0)

\* The signs normalize_lookup_name removes
Removed == {",", "*", "\\", "/", ":", "'", "\"", "(", ")"}

\* EmojiTable::normalize_lookup_name: the removed signs left out, the
\* delimiters turned into spaces, in lower case
normalize_lookup_name(name) ==
    LET kept == SelectSeq(name, LAMBDA c : c \notin Removed)
    IN to_lowercase([i \in DOMAIN kept |-> IF kept[i] \in Delimiters THEN " " ELSE kept[i]])

\* EmojiTable::new()
EmptyTable == [table |-> <<>>, names |-> <<>>]

\* EmojiTable::get_by_name: the text itself as a key, then its lookup name
get_by_name(t, name) ==
    LET chars == [i \in DOMAIN name |-> CharCode(name[i])]
        lookup_name == normalize_lookup_name(name)
    IN IF chars \in DOMAIN t.table THEN [found |-> TRUE, key |-> chars]
       ELSE IF lookup_name \in DOMAIN t.names /\ t.names[lookup_name] \in DOMAIN t.table
       THEN [found |-> TRUE, key |-> t.names[lookup_name]]
       ELSE [found |-> FALSE]

\* One line of expand_descriptions_from_test_data that EMOJI_TEST_REGEX
\* matches: update_emoji, then insert_lookup_name for a status that is an
\* emoji or for a name without a mapping
expand_line(t, line) ==
    LET codepoints == key_from_str(line.codepoints)
        updated == [table |-> Insert(t.table, codepoints, line.name), names |-> t.names]
    IN IF line.status # "unqualified" \/ ~get_by_name(updated, line.name).found
       THEN [table |-> updated.table,
             names |-> Insert(updated.names, normalize_lookup_name(line.name), codepoints)]
       ELSE updated

RECURSIVE expand_descriptions_from_test_data(_, _)
expand_descriptions_from_test_data(t, lines) ==
    IF lines = <<>> THEN t
    ELSE expand_descriptions_from_test_data(expand_line(t, Head(lines)), Tail(lines))

\* Emoji::from_name
from_name(name, t) ==
    IF get_by_name(t, name).found
    THEN [ok |-> TRUE, emoji |-> Emoji(get_by_name(t, name).key, NoPath)]
    ELSE [ok |-> FALSE, error |-> "NoValidCodepointsFound"]

\* Emoji::from_path(file, Some(table), false): by the name, then by the
\* sequence, then set_path
from_path_table(file, t) ==
    LET emoji == IF from_name(file.stem, t).ok THEN from_name(file.stem, t)
                 ELSE from_sequence(file.stem)
    IN IF emoji.ok
       THEN [ok |-> TRUE, emoji |-> Emoji(emoji.emoji.sequence, file.path)]
       ELSE emoji

\* The lines of an emoji-test.txt, as EMOJI_TEST_REGEX captures them: the
\* codepoints, the status and the name
TestLines ==
    [codepoints : {<<"0">>, <<"1", "f", "6", "0", "0">>, <<"0", "0", " ", "0">>},
     status : {"fully-qualified", "unqualified"},
     name : {<<"n", "u", "l", "l">>, <<"N", "u", "l", "l">>, <<"g">>}]

\* The files given to from_path with a table
TableFiles ==
    {[path |-> "svg/null.svg", stem |-> <<"n", "u", "l", "l">>],
     [path |-> "svg/1f600.svg", stem |-> <<"1", "f", "6", "0", "0">>],
     [path |-> "svg/g.svg", stem |-> <<"g">>]}

\* The calls of the constructors with their inputs
LoaderCalls ==
    [call : {"from_u32_sequence"}, code_sequence : SeqsUpTo({0, 128512}, MaxCodes)]
    \cup [call : {"from_sequence"}, text : SeqsUpTo({"1", "f", "g", "-", "0"}, MaxText)]
    \cup [call : {"from_flag"}, text : SeqsUpTo({"d", "E", "-", "5", "."}, MaxText)]
    \cup [call : {"from_path"}, file : ImageFiles]
    \cup [call : {"from_path_table"}, file : TableFiles,
          lines : SeqsUpTo(TestLines, MaxLines)]

InitLoader ==
    /\ NoBuild
    /\ fs_svg = [p \in SvgPaths |-> File(<<LetterA, LF>>)]
    /\ fs_hashes = NoFile
    /\ hashes = EmptyHashes
    /\ op = "none"
    /\ arg \in LoaderCalls
    /\ res = <<>>

\* One constructor is called with the input
Construct(result) ==
    /\ op = "none"
    /\ op' = arg.call
    /\ res' = result
    /\ UNCHANGED <<fs_svg, fs_hashes, hashes, arg>>
    /\ UNCHANGED build_vars

FromU32Sequence ==
    arg.call = "from_u32_sequence" /\ Construct(from_u32_sequence(arg.code_sequence))

FromSequence ==
    arg.call = "from_sequence" /\ Construct(from_sequence(arg.text))

FromFlag ==
    arg.call = "from_flag" /\ Construct(from_flag(arg.text))

FromPath ==
    arg.call = "from_path" /\ Construct(from_path_emoji(arg.file))

FromPathTable ==
    /\ arg.call = "from_path_table"
    /\ Construct(from_path_table(arg.file,
                                 expand_descriptions_from_test_data(EmptyTable, arg.lines)))

NextLoader ==
    \/ FromU32Sequence
    \/ FromSequence
    \/ FromFlag
    \/ FromPath
    \/ FromPathTable

SpecLoader == InitLoader /\ [][NextLoader]_vars

----------------------------------------------------------------------------
(* The driver over any EmojiBuilder: build<Builder> of main.rs, which prepares
   in parallel, and PackConfig::build, which prepares one item after the
   other.  The builder is any implementation of the trait: prepare returns
   Err, or Ok with a prepared value and with or without derived items; build
   returns Ok or Err. *)

\* The item a builder derives from an item (a skin tone variant)
DerivedOf(e) == Emoji(e.sequence \o <<127995>>, NoPath)

\* PreparationResult: Err(_), Ok((prepared, None)) or Ok((prepared, Some(derived)))
PreparationResults(e) ==
    {[ok |-> FALSE],
     [ok |-> TRUE, prepared |-> e.sequence, derived |-> <<>>],
     [ok |-> TRUE, prepared |-> e.sequence,
      derived |-> <<[emoji |-> DerivedOf(e), prepared |-> DerivedOf(e).sequence]>>]}

\* .map(|prepared| prepared.0) and .map(|(prepared, _derived)| prepared)
First(result) ==
    IF result.ok THEN [ok |-> TRUE, prepared |-> result.prepared] ELSE [ok |-> FALSE]

\* The calls made on the builder so far
Calls(name) == {i \in DOMAIN res : res[i].call = name}

InitDriver ==
    /\ NoBuild
    /\ fs_svg = [p \in SvgPaths |-> File(<<LetterA, LF>>)]
    /\ fs_hashes = NoFile
    /\ hashes = EmptyHashes
    /\ op = "none"
    /\ arg = <<>>
    /\ res = <<>>

\* The driver starts: main.rs over the Vec of parse_emojis, PackConfig::build
\* over the HashSet of a pack, after Builder::new
DriverStart(driver, items) ==
    /\ pc = "idle" /\ op = "none"
    /\ items \subseteq parse_emojis(ImageFiles)
    /\ driver = "pack" => IsHashSet(items)
    /\ op' = driver
    /\ emojis' = items
    /\ worker' = [e \in items |-> [at |-> "idle"]]
    /\ pc' = "prepare"
    /\ UNCHANGED <<fs_svg, fs_png, fs_hashes, fs_output, build_path_rooted,
                   render_only, hashes, prepared, step, runs, edits, faults,
                   rendered, reused, checked, stored, assembled, build_calls,
                   last, touched, arg, res>>

\* builder.prepare(emoji) is called: by any worker of par_iter in main.rs, in
\* turn by iter() in PackConfig::build
PrepareCall(e) ==
    /\ pc = "prepare" /\ worker[e].at = "idle"
    /\ op = "pack" => \A x \in emojis : worker[x].at # "running"
    /\ worker' = [worker EXCEPT ![e] = [at |-> "running"]]
    /\ res' = Append(res, [call |-> "prepare", emoji |-> e])
    /\ UNCHANGED <<fs_svg, fs_png, fs_hashes, fs_output, build_path_rooted,
                   render_only, hashes, emojis, prepared, pc, step, runs, edits,
                   faults, rendered, reused, checked, stored, assembled,
                   build_calls, last, touched, op, arg>>

\* builder.prepare(emoji) returns
PrepareReturn(e, result) ==
    /\ pc = "prepare" /\ worker[e].at = "running"
    /\ worker' = [worker EXCEPT ![e] = [at |-> "done", result |-> result]]
    /\ UNCHANGED <<fs_svg, fs_png, fs_hashes, fs_output, build_path_rooted,
                   render_only, hashes, emojis, prepared, pc, step, runs, edits,
                   faults, rendered, reused, checked, stored, assembled,
                   build_calls, last, touched, op, arg, res>>

\* collect(): the map of every item to the first component of its outcome
DriverCollect(order) ==
    /\ pc = "prepare"
    /\ \A e \in emojis : worker[e].at = "done"
    /\ prepared' = CollectMap(order, [e \in emojis |-> First(worker[e].result)])
    /\ pc' = "build"
    /\ UNCHANGED <<fs_svg, fs_png, fs_hashes, fs_output, build_path_rooted,
                   render_only, hashes, emojis, worker, step, runs, edits, faults,
                   rendered, reused, checked, stored, assembled, build_calls,
                   last, touched, op, arg, res>>

\* builder.build(prepared, output); main.rs logs an error, PackConfig::build
\* returns it
DriverBuild(succeeds) ==
    /\ pc = "build"
    /\ res' = Append(res, [call |-> "build", emojis |-> prepared, ok |-> succeeds])
    /\ build_calls' = build_calls + 1
    /\ pc' = "returned"
    /\ UNCHANGED <<fs_svg, fs_png, fs_hashes, fs_output, build_path_rooted,
                   render_only, hashes, emojis, worker, prepared, step, runs,
                   edits, faults, rendered, reused, checked, stored, assembled,
                   last, touched, op, arg>>

\* The process is interrupted while it prepares: no handler is installed and
\* nothing polls a flag, so the process ends where it stands
Interrupt ==
    /\ pc = "prepare"
    /\ pc' = "killed"
    /\ UNCHANGED <<fs_svg, fs_png, fs_hashes, fs_output, build_path_rooted,
                   render_only, hashes, emojis, worker, prepared, step, runs,
                   edits, faults, rendered, reused, checked, stored, assembled,
                   build_calls, last, touched, op, arg, res>>

NextDriver ==
    \/ \E driver \in {"main", "pack"}, items \in SUBSET parse_emojis(ImageFiles) :
          DriverStart(driver, items)
    \/ \E e \in emojis : PrepareCall(e)
    \/ \E e \in emojis : \E result \in PreparationResults(e) : PrepareReturn(e, result)
    \/ \E order \in Orders(emojis) : DriverCollect(order)
    \/ \E succeeds \in BOOLEAN : DriverBuild(succeeds)
    \/ Interrupt

SpecDriver == InitDriver /\ [][NextDriver]_vars

----------------------------------------------------------------------------
(* EmojiBuilder::reset, the default implementation, over a build directory.
   An entry is a regular file, a directory, a symbolic link to one of the two,
   a symbolic link to nothing, or something else (a fifo, a socket); locked
   says that the file system refuses to delete it. *)

\* A path that is no directory, and a directory with its entries
NoDir == [exists |-> FALSE, entries |-> <<>>]

Dir(entries) == [exists |-> TRUE, entries |-> entries]

EntryNames == {"png", "hashes.csv"}

EntryKinds == {"file", "dir", "link_to_file", "link_to_dir", "dangling_link", "fifo"}

Entries == [kind : EntryKinds, locked : BOOLEAN]

\* The directories: any subset of the names, each with an entry
Directories == {Dir(entries) : entries \in UNION {[names -> Entries] : names \in SUBSET EntryNames}}

\* Path::is_file and Path::is_dir: the metadata of the target, links followed;
\* FALSE when there is no target
is_file(entry) == entry.kind \in {"file", "link_to_file"}

is_dir(entry) == entry.kind \in {"dir", "link_to_dir"}

\* The branch reset takes for an entry: remove_file, remove_dir_all or nothing
Removal(entry) ==
    IF is_file(entry) THEN "remove_file"
    ELSE IF is_dir(entry) THEN "remove_dir_all"
    ELSE "none"

\* The errors of the removals, in the order read_dir yields the entries; an
\* io::Error holds the kind of the failure and no path
RECURSIVE ResetErrors(_, _)
ResetErrors(entries, order) ==
    IF order = <<>> THEN <<>>
    ELSE LET entry == entries[order[1]]
             rest == ResetErrors(entries, SubSeq(order, 2, Len(order)))
         IN IF Removal(entry) # "none" /\ entry.locked
            THEN <<"PermissionDenied">> \o rest
            ELSE rest

\* reset(build_dir): the result, the removals that were called and the
\* directory as it is left
reset(dir, order) ==
    IF ~dir.exists
    THEN [ok |-> FALSE, error |-> "IoError", errors |-> <<"NotFound">>,
          called |-> {}, dir |-> NoDir]
    ELSE LET errors == ResetErrors(dir.entries, order)
             called == {n \in DOMAIN dir.entries : Removal(dir.entries[n]) # "none"}
             gone == {n \in called : ~dir.entries[n].locked}
         IN [ok |-> errors = <<>>,
             error |-> IF errors = <<>> THEN "none" ELSE "IoErrors",
             errors |-> errors,
             called |-> called,
             dir |-> Dir([n \in (DOMAIN dir.entries) \ gone |-> dir.entries[n]])]

InitReset ==
    /\ NoBuild
    /\ fs_svg = [p \in SvgPaths |-> File(<<LetterA, LF>>)]
    /\ fs_hashes = NoFile
    /\ hashes = EmptyHashes
    /\ op = "none"
    /\ arg \in Directories \cup {NoDir}
    /\ res = <<>>

Reset(order) ==
    /\ op = "none"
    /\ op' = "reset"
    /\ res' = reset(arg, order)
    /\ UNCHANGED <<fs_svg, fs_hashes, hashes, arg>>
    /\ UNCHANGED build_vars

NextReset ==
    \E order \in Orders(DOMAIN arg.entries) : Reset(order)

SpecReset == InitReset /\ [][NextReset]_vars

----------------------------------------------------------------------------
(* The identity of an Emoji: impl Hash and impl PartialEq, and what a HashMap
   keyed by &Emoji and the table of hashes make of it *)

None == "None"

\* The Emoji values of the check: a sequence, and a name, kinds and a path or
\* None for each
FullEmojis ==
    [sequence : {<<128512>>, <<128513>>, <<128512, 127995>>},
     name : {None, "grinning face"},
     kinds : {None, "Emoji"},
     svg_path : {NoPath, "svg/emoji_u1f600.svg"}]

\* eq as #[derive(PartialEq)] would make it: every field compared
eq_derived(a, b) == a = b

\* impl PartialEq<Emoji> for Emoji
eq(a, b) == a.sequence = b.sequence

\* impl Hash for Emoji: what is fed to the Hasher, the length of the sequence
\* and then its codes
hash_emoji(a) == <<Len(a.sequence)>> \o a.sequence

\* HashMap::insert: the entry of an equal key with the same hash gets the value
\* and keeps its key; without one, a new entry
insert(map, key, value) ==
    IF \E i \in DOMAIN map : hash_emoji(map[i].key) = hash_emoji(key) /\ eq(map[i].key, key)
    THEN [i \in DOMAIN map |->
            IF hash_emoji(map[i].key) = hash_emoji(key) /\ eq(map[i].key, key)
            THEN [key |-> map[i].key, value |-> value]
            ELSE map[i]]
    ELSE Append(map, [key |-> key, value |-> value])

InitEq ==
    /\ NoBuild
    /\ fs_svg = [p \in SvgPaths |-> File(<<LetterA, LF>>)]
    /\ fs_hashes = NoFile
    /\ hashes = EmptyHashes
    /\ op = "none"
    /\ arg \in FullEmojis \X FullEmojis
    /\ res = <<>>

\* Two items are compared, hashed, collected into the map of the outcomes and
\* stored in the table of hashes
Compare ==
    /\ op = "none"
    /\ op' = "eq"
    /\ res' = [eq |-> eq(arg[1], arg[2]),
               hashes |-> <<hash_emoji(arg[1]), hash_emoji(arg[2])>>,
               map |-> insert(insert(<<>>, arg[1], 1), arg[2], 2),
               table |-> update(update(EmptyHashes, arg[1], Sha256(<<LF>>)),
                                arg[2], Sha256(<<LetterA, LF>>))]
    /\ UNCHANGED <<fs_svg, fs_hashes, hashes, arg>>
    /\ UNCHANGED build_vars

NextEq == Compare

SpecEq == InitEq /\ [][NextEq]_vars

----------------------------------------------------------------------------
(* The driver of the integration tests with the DummyBuilder: create, prepare
   for every item in turn, build once, then the output is loaded *)

\* The paths of the items of the test
DummyPaths == {e.svg_path : e \in parse_emojis(ImageFiles)}

\* DummyBuilder::build: Err for the first Err of the map; the digests of the
\* map in a new table
dummy_table(map) ==
    [k \in DOMAIN map |-> map[k].result.prepared]

InitDummy ==
    /\ NoBuild
    /\ fs_svg \in [DummyPaths -> {File(c) : c \in SvgContents \cup {<<LetterA, CR, LF>>}}]
    /\ fs_hashes = NoFile
    /\ hashes = EmptyHashes
    /\ op = "none"
    /\ arg = NoFile
    /\ res = <<>>

\* run: create_temps and create; DummyBuilder::new writes nothing
DummyStart(items) ==
    /\ pc = "idle" /\ op = "none"
    /\ items \subseteq parse_emojis(ImageFiles)
    /\ emojis' = items
    /\ worker' = [e \in items |-> [at |-> "todo"]]
    /\ pc' = "prepare"
    /\ UNCHANGED <<fs_svg, fs_png, fs_hashes, fs_output, build_path_rooted,
                   render_only, hashes, prepared, step, runs, edits, faults,
                   rendered, reused, checked, stored, assembled, build_calls,
                   last, touched, op, arg, res>>

\* DummyBuilder::prepare: FileHashes::hash(emoji), Ok((bytes, None)) or Err
DummyPrepare(e) ==
    /\ pc = "prepare" /\ worker[e].at = "todo"
    /\ worker' = [worker EXCEPT ![e] =
                    [at |-> "done",
                     result |-> IF hash(e, fs_svg).ok
                                THEN [ok |-> TRUE, prepared |-> hash(e, fs_svg).value]
                                ELSE [ok |-> FALSE]]]
    /\ UNCHANGED <<fs_svg, fs_png, fs_hashes, fs_output, build_path_rooted,
                   render_only, hashes, emojis, prepared, pc, step, runs, edits,
                   faults, rendered, reused, checked, stored, assembled,
                   build_calls, last, touched, op, arg, res>>

\* prepare of caller.rs: collect() into the HashMap
DummyCollect(order) ==
    /\ pc = "prepare"
    /\ \A e \in emojis : worker[e].at = "done"
    /\ prepared' = CollectMap(order, [e \in emojis |-> worker[e].result])
    /\ pc' = "build"
    /\ UNCHANGED <<fs_svg, fs_png, fs_hashes, fs_output, build_path_rooted,
                   render_only, hashes, emojis, worker, step, runs, edits, faults,
                   rendered, reused, checked, stored, assembled, build_calls,
                   last, touched, op, arg, res>>

\* DummyBuilder::build: the digests are put into a new FileHashes, which is
\* written to the output file
DummyBuild(order) ==
    /\ pc = "build"
    /\ pc' = "returned"
    /\ build_calls' = build_calls + 1
    /\ IF \E k \in DOMAIN prepared : ~prepared[k].result.ok
       THEN op' = "err" /\ arg' = arg
       ELSE op' = "ok" /\ arg' = File(write_to_csv_writer(dummy_table(prepared), order))
    /\ UNCHANGED <<fs_svg, fs_png, fs_hashes, fs_output, build_path_rooted,
                   render_only, hashes, emojis, worker, prepared, step, runs,
                   edits, faults, rendered, reused, checked, stored, assembled,
                   last, touched, res>>

\* check_hashes: FileHashes::from_path(output_path), a path with a root
DummyLoad ==
    /\ pc = "returned" /\ op = "ok"
    /\ from_path(TRUE, arg).ok
    /\ op' = "load"
    /\ res' = from_path(TRUE, arg).table
    /\ UNCHANGED <<fs_svg, fs_hashes, hashes, arg>>
    /\ UNCHANGED build_vars

NextDummy ==
    \/ \E items \in SUBSET parse_emojis(ImageFiles) : DummyStart(items)
    \/ \E e \in emojis : DummyPrepare(e)
    \/ \E order \in Orders(emojis) : DummyCollect(order)
    \/ \E order \in Orders(DOMAIN prepared) : DummyBuild(order)
    \/ DummyLoad

SpecDummy == InitDummy /\ [][NextDummy]_vars

----------------------------------------------------------------------------
(* NoCrRead::read called again and again over a reader that may return fewer
   bytes than the buffer holds before the end of the stream *)

InitRead ==
    /\ NoBuild
    /\ fs_svg = [p \in SvgPaths |-> File(<<LetterA, LF>>)]
    /\ fs_hashes = NoFile
    /\ hashes = EmptyHashes
    /\ op = "none"
    /\ \E data \in SeqsUpTo({LetterA, CR, LF}, MaxFileLen),
          caps \in SeqsUpTo(1..MaxBuf, MaxCaps),
          len \in 1..MaxBuf :
          arg = [r |-> [data |-> data, pos |-> 0, caps |-> caps],
                 buf |-> [i \in 1..len |-> 0]]
    /\ res = <<>>

\* One call of NoCrRead::read(buf), after no call or after a call that
\* returned bytes: what it returns, what it has taken from the wrapped reader,
\* and the bytes reported by all the calls so far
Read ==
    /\ op = "none" \/ (op = "read" /\ res.n > 0)
    /\ LET got == NoCrRead_read(arg.r, arg.buf)
       IN /\ arg' = [r |-> got.r, buf |-> got.buf]
          /\ res' = [n |-> got.n,
                     consumed |-> SubSeq(arg.r.data, arg.r.pos + 1, got.r.pos),
                     out |-> (IF op = "none" THEN <<>> ELSE res.out)
                             \o SubSeq(got.buf, 1, got.n)]
    /\ op' = "read"
    /\ UNCHANGED <<fs_svg, fs_hashes, hashes>>
    /\ UNCHANGED build_vars

NextRead == Read

SpecRead == InitRead /\ [][NextRead]_vars

----------------------------------------------------------------------------
(* FileHashes::from_csv_reader over rows whose first column holds any tokens *)

\* The tokens of a first column: two codepoints, a text that is none, nothing
KeyTokens == {FormatHex(128512), FormatHex(127995), <<"z", "z">>, <<>>}

\* The codepoints that stand in a first column, when every token is one
IsCodepoints(tokens) ==
    tokens # <<>> /\ \A i \in DOMAIN tokens : FromStrRadix16(tokens[i]) >= 0

Codepoints(tokens) == [i \in DOMAIN tokens |-> FromStrRadix16(tokens[i])]

\* The rows: the tokens with spaces between them, a comma, a digest
KeyRows == [tokens : SeqsUpTo(KeyTokens, MaxTokens),
            value : {Sha256(<<LF>>), Sha256(<<LetterA, LF>>)}]

KeyRowText(row) ==
    Join(row.tokens, " ") \o <<",">> \o HexEncode(row.value) \o <<"\n">>

RECURSIVE KeyRowsText(_)
KeyRowsText(rows) ==
    IF rows = <<>> THEN <<>> ELSE KeyRowText(Head(rows)) \o KeyRowsText(Tail(rows))

\* A file that holds a row of the sequence 1f600 or nothing, and then one row
InitKeys ==
    /\ NoBuild
    /\ fs_svg = [p \in SvgPaths |-> File(<<LetterA, LF>>)]
    /\ hashes = EmptyHashes
    /\ op = "none"
    /\ \E first \in SeqsUpTo({[tokens |-> <<FormatHex(128512)>>,
                               value |-> Sha256(<<LetterA, CR, LF>>)]}, 1),
          row \in KeyRows : arg = first \o <<row>>
    /\ fs_hashes = File(KeyRowsText(arg))
    /\ res = <<>>

LoadKeys ==
    /\ op = "none"
    /\ from_path(TRUE, fs_hashes).ok
    /\ op' = "load"
    /\ res' = from_path(TRUE, fs_hashes).table
    /\ UNCHANGED <<fs_svg, fs_hashes, hashes, arg>>
    /\ UNCHANGED build_vars

NextKeys == LoadKeys

SpecKeys == InitKeys /\ [][NextKeys]_vars

----------------------------------------------------------------------------
(* FileHashes::write_to_path and FileHashes::from_path over paths: a path is
   its components, with or without a root in front *)

PathNames == {"build", "hashes.csv"}

\* The paths of at least one component
Paths == [root : BOOLEAN, parts : SeqsUpTo(PathNames, MaxParts) \ {<<>>}]

\* PathBuf::new(): the empty path
EmptyPath == [root |-> FALSE, parts |-> <<>>]

\* Path::has_root
has_root(path) == path.root

\* Path::parent: the path without its last component, None for a path that
\* ends in a root or is empty
parent(path) ==
    IF path.parts = <<>> THEN [some |-> FALSE]
    ELSE [some |-> TRUE,
          path |-> [root |-> path.root,
                    parts |-> SubSeq(path.parts, 1, Len(path.parts) - 1)]]

\* Path::join: a path with a root replaces the base
join(base, path) ==
    IF has_root(path) THEN path
    ELSE [root |-> base.root, parts |-> base.parts \o path.parts]

\* FsSource::new(base_file), or new_with_dir(PathBuf::new(), Some(path)) when
\* the path has no parent
FsSource(path) ==
    IF parent(path).some
    THEN [base_dir |-> parent(path).path, base_file |-> path]
    ELSE [base_dir |-> EmptyPath, base_file |-> path]

\* FsSource::relate_path
relate_path(source, target_path) ==
    IF ~has_root(target_path) THEN join(source.base_dir, target_path)
    ELSE target_path

\* File::open in request, for request_root_file: the path that is opened
request_root_file(source) == relate_path(source, source.base_file)

\* The tables that are written
PathTables ==
    {EmptyHashes,
     Insert(EmptyHashes, <<128512>>, Sha256(<<LetterA, LF>>)),
     Insert(Insert(EmptyHashes, <<128512>>, Sha256(<<LF>>)), <<128513>>, Sha256(<<LetterA, LF>>))}

\* The files: none
NoFiles == <<>>

InitPath ==
    /\ NoBuild
    /\ fs_svg = [p \in SvgPaths |-> File(<<LetterA, LF>>)]
    /\ fs_hashes = NoFile
    /\ hashes = EmptyHashes
    /\ op = "none"
    /\ arg \in [path : Paths, table : PathTables]
    /\ res = [fs |-> NoFiles]

\* write_to_path(path): the file at the path holds the records of the table
WriteToPath(order) ==
    /\ op = "none"
    /\ op' = "write"
    /\ res' = [fs |-> Insert(res.fs, arg.path, File(write_to_csv_writer(arg.table, order)))]
    /\ UNCHANGED <<fs_svg, fs_hashes, hashes, arg>>
    /\ UNCHANGED build_vars

\* from_path(path): the file that request_root_file opens is read
FromPathFs ==
    /\ op = "write"
    /\ op' = "load"
    /\ LET opened == request_root_file(FsSource(arg.path))
       IN res' = [fs |-> res.fs,
                  opened |-> opened,
                  loaded |-> IF opened \in DOMAIN res.fs
                             THEN [ok |-> TRUE, table |-> from_csv_reader(res.fs[opened].content)]
                             ELSE [ok |-> FALSE]]
    /\ UNCHANGED <<fs_svg, fs_hashes, hashes, arg>>
    /\ UNCHANGED build_vars

NextPath ==
    \/ \E order \in Orders(DOMAIN arg.table) : WriteToPath(order)
    \/ FromPathFs

SpecPath == InitPath /\ [][NextPath]_vars

----------------------------------------------------------------------------
(* The flag operations of Emoji, Display and Blobmoji::generate_filename over
   the items the public constructors make, an empty sequence included.  The
   build has overflow checks (the debug profile) or has none (the release
   profile). *)

\* str::to_uppercase
to_uppercase(s) ==
    [i \in DOMAIN s |->
        IF IndexOf(LowerCase, s[i]) > 0 THEN UpperCase[IndexOf(LowerCase, s[i])] ELSE s[i]]

\* (codepoint as u8) as char, for the letters and the digits
AsChar(c) == IF c >= 97 /\ c <= 122 THEN LowerCase[c - 96] ELSE DecDigits[c - 47]

\* COUNTRY_RANGE, REGION_LETTERS and REGION_DIGITS
InCountryRange(c) == c >= 127462 /\ c <= 127487

InRegionLetters(c) == c >= 917601 /\ c <= 917626

InRegionDigits(c) == c >= 917552 /\ c <= 917561

\* a - b on usize.  With overflow checks a result below 0 panics; without them
\* it wraps, and value is then the result less 2^64.
sub_usize(a, b, overflow_checks) ==
    [underflow |-> a < b, panic |-> a < b /\ overflow_checks, value |-> a - b]

\* The outcome of an operation that does no subtraction
Plain(value) == [underflow |-> FALSE, panic |-> FALSE, value |-> value]

\* Option<String>
NoText == [some |-> FALSE, text |-> <<>>]

SomeText(text) == [some |-> TRUE, text |-> text]

\* Emoji::is_country_flag
is_country_flag(e) ==
    e.sequence # <<>> /\ \A i \in DOMAIN e.sequence : InCountryRange(e.sequence[i])

\* Emoji::is_subdiv_flag: last_index is computed first, then the conditions
\* are evaluated from left to right
is_subdiv_flag(e, overflow_checks) ==
    LET seq == e.sequence
        last_index == sub_usize(Len(seq), 1, overflow_checks)
    IN [underflow |-> last_index.underflow,
        panic |-> last_index.panic,
        value |-> /\ ~last_index.panic
                  /\ Len(seq) >= 5
                  /\ seq[1] = BLACK_FLAG
                  /\ seq[Len(seq)] = CANCEL_TAG
                  /\ \A i \in 2..last_index.value :
                        InRegionLetters(seq[i]) \/ InRegionDigits(seq[i])]

\* Emoji::is_flag: the kinds, then is_country_flag, then is_subdiv_flag
is_flag(e, overflow_checks) ==
    IF e.kinds = "EmojiFlagSequence" \/ is_country_flag(e)
    THEN Plain(TRUE)
    ELSE is_subdiv_flag(e, overflow_checks)

\* Emoji::get_country_name
get_country_name(e) ==
    IF is_country_flag(e)
    THEN SomeText(to_uppercase([i \in DOMAIN e.sequence |->
                                   AsChar(e.sequence[i] - FLAG_OFFSET)]))
    ELSE NoText

\* Emoji::get_subdiv_name
get_subdiv_name(e, overflow_checks) ==
    LET seq == e.sequence
        is == is_subdiv_flag(e, overflow_checks)
        last_index == sub_usize(Len(seq), 1, overflow_checks)
        country == [i \in 1..2 |-> AsChar(seq[i + 1] - REGIONAL_OFFSET)]
        subdiv == [i \in 1..(last_index.value - 3) |-> AsChar(seq[i + 3] - REGIONAL_OFFSET)]
    IN [underflow |-> is.underflow,
        panic |-> is.panic,
        value |-> IF ~is.panic /\ is.value
                  THEN SomeText(to_uppercase(country \o <<"-">> \o subdiv))
                  ELSE NoText]

\* Emoji::get_flag_name: get_country_name().or_else(|| get_subdiv_name())
get_flag_name(e, overflow_checks) ==
    IF get_country_name(e).some
    THEN Plain(get_country_name(e))
    ELSE get_subdiv_name(e, overflow_checks)

\* impl Display for Emoji: the name, or the flag, or the codes in brackets
fmt(e, overflow_checks) ==
    LET flag == get_flag_name(e, overflow_checks)
    IN IF e.name.some THEN Plain(e.name.text)
       ELSE [underflow |-> flag.underflow,
             panic |-> flag.panic,
             value |-> IF flag.panic THEN <<>>
                       ELSE IF flag.value.some
                       THEN <<"F", "l", "a", "g", " ">> \o flag.value.text
                       ELSE <<"[">>
                            \o Join([i \in DOMAIN e.sequence |->
                                       to_uppercase(FormatHex(e.sequence[i]))], "-")
                            \o <<"]">>]

\* hex_len summed over the codes
RECURSIVE codelength(_)
codelength(sequence) ==
    IF sequence = <<>> THEN 0
    ELSE Len(FormatHex(Head(sequence))) + codelength(Tail(sequence))

\* Blobmoji::generate_filename with its arithmetic: the number of delimiters,
\* the capacity of the String, the name
generate_filename_sized(e, overflow_checks) ==
    LET delimiters == sub_usize(Len(e.sequence), 1, overflow_checks)
    IN [underflow |-> delimiters.underflow,
        panic |-> delimiters.panic,
        capacity |-> codelength(e.sequence) + delimiters.value + 5 + 2 + 4,
        value |-> IF delimiters.panic THEN <<>> ELSE generate_filename(e)]

\* An Emoji with the fields the operations read
FlagEmoji(sequence, name, kinds) == [sequence |-> sequence, name |-> name, kinds |-> kinds]

\* impl From<Vec<u32>> for Emoji
from_vec(sequence) == FlagEmoji(sequence, NoText, None)

\* The codes of the sequences: a face and two regional indicators
FlagCodes == {128512, 127465, 127466}

\* The flags from_flag is called with
FlagTexts == {<<"d", "e", "-", "n", "w">>, <<"a", "t", "-", "5">>}

\* The items: those of From<Vec<u32>> and of from_flag, and those with a name
\* (set_name) or with kinds (set_kind)
FlagEmojis ==
    LET sequences == SeqsUpTo(FlagCodes, MaxCodes)
                        \cup {from_flag(t).emoji.sequence : t \in FlagTexts}
    IN {FlagEmoji(q, n, k) : q \in sequences,
                             n \in {NoText, SomeText(<<"P", "a", "r", "t", "y">>)},
                             k \in {None, "Emoji", "EmojiFlagSequence"}}

InitFlags ==
    /\ NoBuild
    /\ fs_svg = [p \in SvgPaths |-> File(<<LetterA, LF>>)]
    /\ fs_hashes = NoFile
    /\ hashes = EmptyHashes
    /\ op = "none"
    /\ arg \in [emoji : FlagEmojis, overflow_checks : BOOLEAN]
    /\ res = <<>>

\* An operation is applied to the item
Apply(name, result) ==
    /\ op' = name
    /\ res' = result
    /\ UNCHANGED <<fs_svg, fs_hashes, hashes, arg>>
    /\ UNCHANGED build_vars

IsSubdivFlag == Apply("is_subdiv_flag", is_subdiv_flag(arg.emoji, arg.overflow_checks))

IsFlag == Apply("is_flag", is_flag(arg.emoji, arg.overflow_checks))

GetFlagName == Apply("get_flag_name", get_flag_name(arg.emoji, arg.overflow_checks))

Display == Apply("fmt", fmt(arg.emoji, arg.overflow_checks))

GenerateFilename ==
    Apply("generate_filename", generate_filename_sized(arg.emoji, arg.overflow_checks))

NextFlags ==
    \/ IsSubdivFlag
    \/ IsFlag
    \/ GetFlagName
    \/ Display
    \/ GenerateFilename

SpecFlags == InitFlags /\ [][NextFlags]_vars

----------------------------------------------------------------------------
(* Properties *)

Fresh == [ok |-> TRUE, value |-> TRUE]
Stale == [ok |-> TRUE, value |-> FALSE]

\* The items of the current run whose prepare call returned an error
Failed == {e \in emojis : worker[e].at = "done" /\ ~worker[e].result.ok}

\* The bytes of a file with every CR LF pair made a single LF
RECURSIVE ToLF(_)
ToLF(bytes) ==
    IF bytes = <<>> THEN <<>>
    ELSE IF Len(bytes) >= 2 /\ bytes[1] = CR /\ bytes[2] = LF
         THEN <<LF>> \o ToLF(SubSeq(bytes, 3, Len(bytes)))
    ELSE <<Head(bytes)>> \o ToLF(Tail(bytes))

\* C1: in a build run that assembles a font, the table of hashes is updated
\* and hashes.csv is written only after the assembly inside build has ended
\* without error: whenever store_prepared has run, the assembly is over.
C1_CommitAfterAssembly ==
    (~render_only /\ stored # "no") => assembled

\* C2: when build failed in the previous run and no file was changed since,
\* every item of that run is rendered again by the run that follows over the
\* same items: none takes the reuse branch because of an entry the failed run
\* wrote.
C2_FailedBuildRendersAgain ==
    (/\ pc = "prepare"
     /\ last.started
     /\ last.failed_in = "build"
     /\ ~touched
     /\ emojis = last.emojis)
        => \A e \in emojis : worker[e].at # "todo" => e \in rendered

\* C3: an item whose prepare returned an error in the previous run is not
\* reported fresh by check in the run that follows, whatever the table held
\* for it before.  (That the failed run writes no entry for the item is what
\* store_updates does: it takes the Ok outcomes only.)
C3_FailedItemStale ==
    (pc = "prepare" /\ last.started)
        => \A e \in last.err \cap DOMAIN checked : checked[e] # Fresh

\* C4: when no file was changed since the previous run wrote hashes.csv, every
\* item that run wrote a digest for is reported fresh by check in the run that
\* follows, and is not rendered by it.
C4_UnchangedItemsFresh ==
    (pc = "prepare" /\ last.started /\ last.saved /\ ~touched)
        => \A e \in (DOMAIN last.digests) \cap DOMAIN checked :
              checked[e] = Fresh /\ e \notin rendered

\* C5: in a run over N items of pairwise distinct sequences in which the
\* prepare call of exactly one item returned an error, the calls of the other
\* items have all returned, the driver can collect the outcomes, the map
\* handed to build has N entries, each the outcome of its own item, N-1 of
\* them Ok and one an error, and build is called with it.
C5_OneFailureOthersGoOn ==
    LET N == Cardinality(emojis)
        oks == {k \in DOMAIN prepared : prepared[k].result.ok}
    IN /\ (/\ pc = "prepare"
           /\ Failed # {}
           /\ \A e \in emojis : worker[e].at = "done")
            => ENABLED (\E order \in Orders(emojis) : Collect(order))
       /\ (pc \in {"build", "assembly", "returned"} /\ Cardinality(Failed) = 1)
            => /\ \A e \in emojis : worker[e].at = "done"
               /\ \A e \in emojis \ Failed : worker[e].result.ok
               /\ DOMAIN prepared = {e.sequence : e \in emojis}
               /\ Cardinality(DOMAIN prepared) = N
               /\ \A e \in emojis : prepared[e.sequence].result = worker[e].result
               /\ Cardinality(oks) = N - 1
               /\ Cardinality((DOMAIN prepared) \ oks) = 1
       /\ (pc = "build" /\ Cardinality(Failed) = 1)
            => ENABLED (\E order \in Orders(DOMAIN store_updates(hashes, prepared)) :
                           BuildStore(order, TRUE))
       /\ (pc \in {"assembly", "returned"} /\ Cardinality(Failed) = 1)
            => build_calls = 1

\* A run of two items, one of which failed, has gone through build
C5_Witness ==
    /\ pc = "returned"
    /\ Cardinality(emojis) = 2
    /\ Cardinality(Failed) = 1
    /\ Cardinality(DOMAIN prepared) = 2
    /\ build_calls = 1

\* C6: after a run that returned Ok and wrote hashes.csv, the file holds the
\* items whose prepare returned Ok in this run and no others: one row for each
\* of them, with the digest the run had for it.
C6_PersistedCoversThisRun ==
    (pc = "idle" /\ last.started /\ last.failed_in = "" /\ last.saved)
        => LET table == from_csv_reader(fs_hashes.content)
           IN /\ DOMAIN table = {e.sequence : e \in last.ok}
              /\ Len(CsvLines(fs_hashes.content)) = Cardinality(last.ok)
              /\ \A e \in DOMAIN last.digests : table[e.sequence] = last.digests[e]

\* C7: a table of N entries with sequences that are not empty and digests of
\* 32 bytes, written to the CSV file in any order of its rows and loaded again,
\* is the same table.
C7_PersistLoad ==
    op = "load" => res = hashes

\* Three entries, written in an order that is not the sorted one, were loaded
C7_Witness ==
    /\ op = "load"
    /\ Len(arg) = 3
    /\ arg[1] = <<35, 65039, 8419>>
    /\ arg[3] = <<169>>
    /\ DOMAIN res = CsvSequences
    /\ res = hashes

\* C8: the digest of an item is the hash of the bytes of its source file with
\* every byte 0x0D left out, whatever the length of the file; two source files
\* that differ in the style of their line ends only have equal digests.
C8_DigestIgnoresCR ==
    op = "hash"
        => /\ res = [ok |-> TRUE,
                     value |-> Sha256(StripCR(fs_svg[arg.svg_path].content))]
           /\ \A p \in SvgPaths :
                 ToLF(fs_svg[p].content) = ToLF(fs_svg[arg.svg_path].content)
                    => hash(ItemOf(p), fs_svg) = res

\* A file longer than the buffer with CR LF was hashed, and the other file is
\* the same with LF
C8_Witness ==
    /\ op = "hash"
    /\ fs_svg[arg.svg_path].content = <<LetterA, CR, LF, LetterA>>
    /\ \E p \in SvgPaths : fs_svg[p].content = <<LetterA, LF, LetterA>>
    /\ res = [ok |-> TRUE, value |-> Sha256(<<LetterA, LF, LetterA>>)]

\* C9: when the source file of the item can be read, check returns fresh if
\* and only if the table has an entry for the sequence of the item that equals
\* the whole digest of the file, byte for byte; without an entry it returns
\* stale; and right after update(item, digest(item)) it returns fresh.
C9_CheckExact ==
    /\ (op = "check" /\ arg.svg_path # NoPath /\ fs_svg[arg.svg_path] # NoFile)
         => /\ res.ok
            /\ res.value <=>
                 /\ arg.sequence \in DOMAIN hashes
                 /\ hashes[arg.sequence]
                      = Sha256(StripCR(fs_svg[arg.svg_path].content))
            /\ arg.sequence \notin DOMAIN hashes => res = Stale
            /\ hashes = EmptyHashes => res = Stale
    /\ op = "update" => check(hashes, arg, fs_svg) = Fresh

\* check returned stale for an entry that differs from the digest in its last
\* byte only
C9_Witness ==
    /\ op = "check"
    /\ arg.svg_path # NoPath
    /\ fs_svg[arg.svg_path] # NoFile
    /\ arg.sequence \in DOMAIN hashes
    /\ hashes[arg.sequence]
         = LastChanged(Sha256(StripCR(fs_svg[arg.svg_path].content)))
    /\ res = Stale

C11_LenientLoad ==
    op = "load"
        => /\ \A i \in DOMAIN arg :
                 arg[i].good => /\ arg[i].key \in DOMAIN res
                                /\ res[arg[i].key] = arg[i].value
           /\ DOMAIN res = {arg[i].key : i \in {j \in DOMAIN arg : arg[j].good}}

\* C12: whatever hashes.csv is, Blobmoji::new yields a table and no error;
\* when the file is absent or holds no well-formed row, the table is empty and
\* Blobmoji is constructed with it.
C12_LoadNeverFails ==
    LET unusable == \/ fs_hashes = NoFile
                    \/ \A i \in DOMAIN arg : ~arg[i].good
        table == new(build_path_rooted, fs_hashes)
    IN /\ DOMAIN table \subseteq {r.key : r \in {x \in LoadRows : x.good}}
       /\ unusable => table = EmptyHashes
       /\ pc = "prepare" => hashes = table

\* Blobmoji was constructed over a file of two rows, neither well formed
C12_Witness ==
    /\ pc = "prepare"
    /\ fs_hashes # NoFile
    /\ build_path_rooted
    /\ Len(arg) = 2
    /\ \A i \in DOMAIN arg : ~arg[i].good
    /\ arg[1] # arg[2]
    /\ hashes = EmptyHashes

\* C13: whenever the driver calls build, the outcome map it passes holds at least
\* one entry, also when no item was submitted.
C13_BuildNeverEmpty ==
    pc = "build" => DOMAIN prepared # {}

\* C14: when the driver calls build, the map it passes holds an entry for every
\* derived item that a successful prepare call returned, with the prepared value
\* that came with it.
C14_DerivedInMap ==
    pc = "build" =>
        \A e \in emojis :
            worker[e].result.ok =>
                \A i \in DOMAIN worker[e].result.derived :
                    LET d == worker[e].result.derived[i]
                    IN /\ d.emoji.sequence \in DOMAIN prepared
                       /\ prepared[d.emoji.sequence].result
                              = [ok |-> TRUE, prepared |-> d.prepared]

\* C15: a driver that was stopped while it prepared has called finish exactly
\* once, with the outcomes collected so far, and has never called build.
C15_StopCallsFinish ==
    pc = "killed" =>
        /\ Cardinality(Calls("finish")) = 1
        /\ Calls("build") = {}
        /\ \A i \in Calls("finish") :
              DOMAIN res[i].emojis
                  = {e.sequence : e \in {x \in emojis : worker[x].at = "done"}}

\* C16: the default reset calls a removal for every entry of the build
\* directory, whatever failed before, and returns one error for each entry that
\* was not removed.
C16_ResetAttemptsAll ==
    op = "reset" /\ arg.exists =>
        /\ res.called = DOMAIN arg.entries
        /\ Len(res.errors) = Cardinality(DOMAIN res.dir.entries)
        /\ res.error \in {"none", "IoErrors"}

\* C17: after the default reset of an existing build directory the directory
\* exists, the returned error stands for every entry that is left in it, and a
\* result of Ok means that the directory is empty, whatever it held.
C17_ResetLeavesNothingSilently ==
    op = "reset" /\ arg.exists =>
        /\ res.dir.exists
        /\ res.ok => DOMAIN res.dir.entries = {}
        /\ ~res.ok => Len(res.errors) >= Cardinality(DOMAIN res.dir.entries)

\* C18: when a step of the assembly in build fails, the run is aborted there:
\* no later step runs, build does not return Ok, and there is no output
\* artifact at output_path.
C18_AssemblyFailureAborts ==
    [][(pc = "assembly" /\ faults' = faults + 1)
          => (pc' = "idle" /\ last'.failed_in = "build" /\ ~fs_output')]_vars

\* C19: build is called only when the prepare call of every item has returned,
\* no prepare call is under way from then on, build is called at most once in a
\* run, and every run that has ended has called it.
C19_BuildOnceAfterPrepare ==
    /\ pc \in {"build", "assembly", "returned"}
          => \A e \in emojis : worker[e].at = "done"
    /\ build_calls <= 1
    /\ pc \in {"assembly", "returned"} => build_calls = 1
    /\ last.started => last.failed_in \in {"", "build"}

\* C20: while the prepare calls run, the table of hashes in memory stays as it
\* was loaded, and the workers hand their digests back as values; within a run
\* the table changes only in build, on the thread of the driver, when every
\* prepare call has returned.
C20_WorkersOnlyRead ==
    [][hashes' # hashes =>
          \/ pc = "idle"
          \/ pc' = "idle"
          \/ /\ pc = "build"
             /\ \A e \in emojis : worker[e].at = "done"
             /\ hashes' = store_updates(hashes, prepared)]_vars

\* A worker has returned a digest the table does not hold while another item is
\* still being prepared
C20_Witness ==
    /\ pc = "prepare"
    /\ \E e \in emojis : /\ worker[e].at = "done"
                         /\ worker[e].result.ok
                         /\ worker[e].result.hash.ok
                         /\ e.sequence \notin DOMAIN hashes
    /\ \E e \in emojis : worker[e].at # "done"

\* C21: on one builder the driver calls prepare at most once for a sequence,
\* and no two prepare calls for one sequence run at the same time, also when
\* several files of the image directory parse to one sequence.
C21_OnePreparePerSequence ==
    /\ \A i, j \in Calls("prepare") :
          res[i].emoji.sequence = res[j].emoji.sequence => i = j
    /\ \A a, b \in emojis :
          (/\ worker[a].at = "running" /\ worker[b].at = "running"
           /\ a.sequence = b.sequence) => a = b

\* C22: two items are equal, and hash alike, exactly when their sequences are
\* equal, whatever their names, kinds and paths; two items of one sequence make
\* one entry of the map of the outcomes and one entry of the table of hashes,
\* two items of two sequences make two.
C22_IdentityIsSequence ==
    op = "eq" =>
        LET same == arg[1].sequence = arg[2].sequence
        IN /\ res.eq <=> same
           /\ (res.hashes[1] = res.hashes[2]) <=> same
           /\ Len(res.map) = IF same THEN 1 ELSE 2
           /\ Cardinality(DOMAIN res.table) = IF same THEN 1 ELSE 2

\* Two items of one sequence that differ in name, kinds and path were compared
C22_Witness ==
    /\ op = "eq" /\ res.eq /\ Len(res.map) = 1
    /\ arg[1].sequence = arg[2].sequence
    /\ arg[1].name # arg[2].name
    /\ arg[1].kinds # arg[2].kinds
    /\ arg[1].svg_path # arg[2].svg_path

\* C23: every item that from_u32_sequence, from_sequence, from_flag or from_path
\* (with or without a table) returns has a sequence that is not empty; an input
\* without a codepoint yields an error.
C23_SequenceNotEmpty ==
    (op \in {"from_u32_sequence", "from_sequence", "from_flag", "from_path",
             "from_path_table"} /\ res.ok)
        => res.emoji.sequence # <<>>

\* C24: the driver run with the DummyBuilder over items whose sources can all
\* be read returns Ok, leaves the build directory empty, and writes an output
\* file that loads to one entry for every item, from its sequence to the digest
\* of its source.
C24_DummyRun ==
    /\ pc = "returned" => op \in {"ok", "load"} /\ arg # NoFile /\ fs_png = <<>>
    /\ op = "load" =>
          /\ \A e \in emojis : /\ e.sequence \in DOMAIN res
                               /\ res[e.sequence] = hash(e, fs_svg).value
          /\ DOMAIN res = {e.sequence : e \in emojis}
          /\ Cardinality(DOMAIN res) = Cardinality(emojis)

\* C25: the bytes that the calls of NoCrRead::read have reported so far are the
\* bytes taken from the wrapped reader without the CR bytes, in their order;
\* the count of a call is the number of bytes it took less the CR bytes among
\* them; and the buffer is zero behind the bytes reported.
C25_ReadDropsCR ==
    op = "read" =>
        /\ res.out = SelectSeq(SubSeq(arg.r.data, 1, arg.r.pos), LAMBDA d : d # CR)
        /\ res.n = Len(res.consumed) - Count(res.consumed, CR)
        /\ \A i \in DOMAIN arg.buf : i > res.n => arg.buf[i] = 0

\* C26: every key of a loaded table is the complete list of the codepoints of
\* the first column of a row and is not empty; a row whose first column is
\* empty or holds a token that is no codepoint leaves the table as the other
\* rows make it.
C26_KeysAreWholeColumns ==
    op = "load" =>
        LET whole == SelectSeq(arg, LAMBDA row : IsCodepoints(row.tokens))
        IN /\ <<>> \notin DOMAIN res
           /\ DOMAIN res = {Codepoints(whole[i].tokens) : i \in DOMAIN whole}
           /\ res = from_csv_reader(KeyRowsText(whole))

\* C27: from_path(p) opens the file that write_to_path(p) wrote, for a path
\* with or without a root and with or without a directory in front, and
\* returns the entries that were written.
C27_ReadsWhereWritten ==
    op = "load" =>
        /\ res.opened = arg.path
        /\ res.loaded.ok
        /\ res.loaded.table = arg.table

\* C28: the digest a prepare call returns for an item it rendered is the digest
\* of the source bytes the image was rendered from, also when the source file
\* is written while prepare is running, so that no later check reports fresh
\* for content that was never rendered.
C28_DigestOfRenderedBytes ==
    \A e \in emojis :
        (/\ e \in rendered
         /\ worker[e].at = "done"
         /\ worker[e].result.ok
         /\ worker[e].result.hash.ok)
            => worker[e].result.hash.value = RenderedDigest(e).value

\* C29: in the reuse branch of Blobmoji::prepare the table holds an entry for
\* the item's sequence and the entry is 32 bytes long, so that the lookup and
\* the conversion to a digest do not fail, whatever the lengths of the digests
\* in the hashes.csv that was loaded.
C29_ReuseFindsDigest ==
    \A e \in reused :
        /\ e.sequence \in DOMAIN hashes
        /\ Len(hashes[e.sequence]) = OutputSize

\* An item took the reuse branch with a table that holds a digest of another
\* length
C29_Witness ==
    /\ reused # {}
    /\ \E k \in DOMAIN hashes : Len(hashes[k]) # OutputSize

\* C30: for every Emoji the public API can build, one with an empty sequence
\* included, is_subdiv_flag, is_flag, get_flag_name, Display and
\* generate_filename never evaluate sequence.len() - 1 on an empty sequence:
\* no subtraction underflows and no call panics.
C30_NoUnderflow ==
    op \in {"is_subdiv_flag", "is_flag", "get_flag_name", "fmt", "generate_filename"}
        => ~res.underflow /\ ~res.panic

====
